---- MODULE Spec2Model ----
(***************************************************************************)
(* A model of python-toonapi: the request layer of toonapi/toon.py         *)
(* (Toon._request under its two backoff decorators), the records of        *)
(* toonapi/models.py with their update_from_dict merges, and the client    *)
(* facade (agreements, activate_agreement, update, set_current_setpoint,   *)
(* set_active_state, subscribe_webhook, unsubscribe_webhook, close).       *)
(*                                                                         *)
(* The specifications of the module:                                       *)
(*   SpecRequest     one call of Toon._request, attempt by attempt;        *)
(*   SpecRecord      one record of models.py under a sequence of updates;  *)
(*   SpecStatus      one models.Status under a sequence of updates;        *)
(*   Spec            one Toon client, one caller, every operation;         *)
(*   SpecClients     two Toon clients side by side;                        *)
(*   SpecConcurrent  one Toon client with two callers in flight at once,   *)
(*                   the token callback, the session and the webhooks.     *)
(***************************************************************************)
EXTENDS Integers, Sequences, FiniteSets, TLC

VARIABLES
    rq,        \* SpecRequest: the state of one call of Toon._request
    rec,       \* SpecRecord: the record under test, its kind and its history
    now,       \* the wall clock read by datetime.now()
    toon,      \* Spec: per client, the fields of the Toon instance
    shared,    \* Spec: the class attributes of models.Status (the four records)
    task,      \* Spec: per caller, the facade operation it runs
    sessions   \* Spec: the aiohttp.ClientSession objects made so far

vars == <<rq, rec, now, toon, shared, task, sessions>>

(***************************************************************************)
(* Python values.  Every value is a record [t, v]: the Python type and an  *)
(* integer.  A float is held in thousandths (v = 21500 is 21.5), a         *)
(* datetime in microseconds since the epoch, a bool as 0 or 1.             *)
(***************************************************************************)
None == [t |-> "none", v |-> 0]
PyInt(n) == [t |-> "int", v |-> n]
PyFloat(m) == [t |-> "float", v |-> m]
PyBool(b) == [t |-> "bool", v |-> IF b THEN 1 ELSE 0]
PyDatetime(us) == [t |-> "datetime", v |-> us]
PyStr(n) == [t |-> "str", v |-> n]

(***************************************************************************)
(* toonapi/exceptions.py: the exception classes and their base classes.    *)
(***************************************************************************)
ExceptionBase(cls) ==
    CASE cls = "ToonError" -> "Exception"
      [] cls = "ToonConnectionError" -> "ToonError"
      [] cls = "ToonConnectionTimeoutError" -> "ToonConnectionError"
      [] cls = "ToonRateLimitError" -> "ToonConnectionError"
      [] OTHER -> "Exception"

RECURSIVE IsInstance(_, _)
\* Python's isinstance(e, base), which is what an except clause and
\* backoff.on_exception test.
IsInstance(cls, base) ==
    IF cls = base THEN TRUE
    ELSE IF cls = "Exception" THEN FALSE
    ELSE IsInstance(ExceptionBase(cls), base)

(***************************************************************************)
(* What a call ends with: a returned value or a raised exception.          *)
(***************************************************************************)
NoBody == [tag |-> "none", status |-> 0, body |-> None]
Return(value) == [kind |-> "return", cls |-> "", msg |-> "", value |-> value]
Raise(cls, msg, value) == [kind |-> "raise", cls |-> cls, msg |-> msg, value |-> value]
Pending == [kind |-> "pending", cls |-> "", msg |-> "", value |-> NoBody]

(***************************************************************************)
(* Toon._request, lines 109-144: one attempt.  The transport either times  *)
(* out, fails, or hands back a response [status, ctype, body].             *)
(***************************************************************************)
CT_JSON == "application/json"
CT_JSON_UTF8 == "application/json; charset=utf-8"
CT_TEXT == "text/plain"
CT_MISSING == ""

\* "application/json" in content_type (a substring test).
ContainsJson(ctype) == ctype \in {CT_JSON, CT_JSON_UTF8}

\* json.loads(contents.decode("utf8")) and response.json(): the parsed body.
JsonValue(status, body) == [tag |-> "json", status |-> status, body |-> body]
\* {"message": contents.decode("utf8")}: the body wrapped as a message.
MessageValue(status, body) == [tag |-> "message", status |-> status, body |-> body]
\* response.text(): the body as raw text.
TextValue(body) == [tag |-> "text", status |-> 0, body |-> body]

\* A variant that takes only 4xx for a failure.
IsErrorStatus_Only4xx(status) == (status \div 100) = 4

IsErrorStatus(status) == (status \div 100) \in {4, 5}

HandleResponse(resp) ==
    IF IsErrorStatus(resp.status)
    THEN IF resp.status = 429
         THEN Raise("ToonRateLimitError",
                    "Rate limit error has occurred with the Quby ToonAPI", NoBody)
         ELSE IF resp.ctype = CT_JSON
              THEN Raise("ToonError", "", JsonValue(resp.status, resp.body))
              ELSE Raise("ToonError", "", MessageValue(resp.status, resp.body))
    ELSE IF resp.status = 204
         THEN Return(NoBody)
         ELSE IF ContainsJson(resp.ctype)
              THEN Return(JsonValue(0, resp.body))
              ELSE Return(TextValue(resp.body))

Timeout == [io |-> "timeout", status |-> 0, ctype |-> "", body |-> None]
ClientError == [io |-> "client_error", status |-> 0, ctype |-> "", body |-> None]
Response(status, ctype, body) ==
    [io |-> "response", status |-> status, ctype |-> ctype, body |-> body]

\* A variant that raises a plain connection error for a timeout.
AttemptResult_TimeoutAsConnectionError(outcome) ==
    IF outcome.io \in {"timeout", "client_error"}
    THEN Raise("ToonConnectionError",
               "Error occurred while communicating with the Quby ToonAPI", NoBody)
    ELSE HandleResponse(outcome)

AttemptResult(outcome) ==
    IF outcome.io = "timeout"
    THEN Raise("ToonConnectionTimeoutError",
               "Timeout occurred while connecting to the Quby ToonAPI", NoBody)
    ELSE IF outcome.io = "client_error"
    THEN Raise("ToonConnectionError",
               "Error occurred while communicating with the Quby ToonAPI", NoBody)
    ELSE HandleResponse(outcome)

(***************************************************************************)
(* The decorators of Toon._request, lines 65-68.  backoff.on_exception     *)
(* calls the function again when it raises an instance of the named class, *)
(* until max_tries calls were made; then the exception is raised onwards.  *)
(* The inner decorator wraps _request, the outer one wraps the inner.      *)
(***************************************************************************)
OUTER_MAX_TRIES == 3
INNER_MAX_TRIES == 6

\* The retry state of one call: the tries of the outer decorator and the
\* tries of the inner decorator's current run, the running attempt included.
NewRetry == [outer |-> 1, inner |-> 1]

InnerCatches(cls) == IsInstance(cls, "ToonRateLimitError")

\* A variant whose outer decorator names the base class ToonError.
OuterCatches_ToonError(cls) == IsInstance(cls, "ToonError")

OuterCatches(cls) == IsInstance(cls, "ToonConnectionError")

\* A variant whose inner decorator gives up one try late.
AfterAttempt_OneMoreTry(retry, res) ==
    IF res.kind = "return" THEN [retry |-> retry, result |-> res]
    ELSE IF InnerCatches(res.cls) /\ retry.inner <= INNER_MAX_TRIES
    THEN [retry |-> [retry EXCEPT !.inner = @ + 1], result |-> Pending]
    ELSE IF OuterCatches(res.cls) /\ retry.outer < OUTER_MAX_TRIES
    THEN [retry |-> [retry EXCEPT !.outer = @ + 1, !.inner = 1], result |-> Pending]
    ELSE [retry |-> retry, result |-> res]

\* The state after one more attempt ended with `res`: [retry, result], the
\* result Pending when another attempt follows.
AfterAttempt(retry, res) ==
    IF res.kind = "return" THEN [retry |-> retry, result |-> res]
    ELSE IF InnerCatches(res.cls) /\ retry.inner < INNER_MAX_TRIES
    THEN [retry |-> [retry EXCEPT !.inner = @ + 1], result |-> Pending]
    ELSE IF OuterCatches(res.cls) /\ retry.outer < OUTER_MAX_TRIES
    THEN [retry |-> [retry EXCEPT !.outer = @ + 1, !.inner = 1], result |-> Pending]
    ELSE [retry |-> retry, result |-> res]

(***************************************************************************)
(* toonapi/const.py (imported by toon.py and models.py).                   *)
(***************************************************************************)
ACTIVE_STATE_HOLIDAY == 4
ACTIVE_STATE_OFF == 5
PROGRAM_STATE_ON == 1
PROGRAM_STATE_OVERRIDE == 2
BURNER_STATE_ON == 1
BURNER_STATE_TAP_WATER == 2
BURNER_STATE_PREHEATING == 3

(***************************************************************************)
(* toonapi/util.py and the builtins used as conversions.  Floats are in    *)
(* thousandths; round() rounds the exact quotient, ties to the even digit. *)
(***************************************************************************)
\* round(n / d) for d > 0, ties to even: Python's round().
RoundHalfEven(n, d) ==
    LET q == n \div d
        r == n % d
    IN  IF 2 * r < d THEN q
        ELSE IF 2 * r > d THEN q + 1
        ELSE IF q % 2 = 0 THEN q ELSE q + 1

\* bool(value): the truth value of an int, a float, a bool or a str.
Truthy(x) == IF x.t = "str" THEN TRUE ELSE x.v # 0

\* The number an int, a float or a bool stands for, in thousandths.
Thousandths(x) == IF x.t = "float" THEN x.v ELSE x.v * 1000

\* x == y for two numbers (Python compares an int, a float and a bool by value).
PyEq(x, y) == Thousandths(x) = Thousandths(y)

convert_temperature(temperature) ==
    IF temperature = None THEN None
    ELSE PyFloat(Thousandths(temperature) \div 100)

convert_boolean(value) == IF value = None THEN None ELSE PyBool(Truthy(value))

\* (timestamp // 1000.0) seconds, and (timestamp % 1000 * 1000) microseconds.
convert_datetime(timestamp) ==
    PyDatetime((timestamp.v \div 1000) * 1000000 + (timestamp.v % 1000) * 1000)

\* round(float(value) / 1000.0, 2), used by convert_kwh, convert_cm3, convert_m3.
convert_kwh(value) ==
    IF value = None THEN None
    ELSE PyFloat(RoundHalfEven(Thousandths(value), 10000) * 10)

convert_cm3(value) == convert_kwh(value)

convert_m3(value) == convert_kwh(value)

\* round(float(value) / 60.0, 1).
convert_lmin(value) ==
    IF value = None THEN None
    ELSE PyFloat(RoundHalfEven(Thousandths(value), 6000) * 100)

convert_negative_none(value) == IF value.v < 0 THEN None ELSE value

\* int(x): a str of digits is parsed, a float is truncated towards zero.
builtin_int(x) ==
    IF x.t = "float"
    THEN PyInt(IF x.v >= 0 THEN x.v \div 1000 ELSE -((-x.v) \div 1000))
    ELSE PyInt(x.v)

\* round(x): an int stays, a float is rounded to the nearest int.
builtin_round(x) ==
    IF x.t = "float" THEN PyInt(RoundHalfEven(x.v, 1000)) ELSE PyInt(x.v)

Convert(conversion, x) ==
    CASE conversion = "convert_temperature" -> convert_temperature(x)
      [] conversion = "convert_boolean" -> convert_boolean(x)
      [] conversion = "convert_datetime" -> convert_datetime(x)
      [] conversion = "convert_kwh" -> convert_kwh(x)
      [] conversion = "convert_cm3" -> convert_cm3(x)
      [] conversion = "convert_m3" -> convert_m3(x)
      [] conversion = "convert_lmin" -> convert_lmin(x)
      [] conversion = "convert_negative_none" -> convert_negative_none(x)
      [] conversion = "int" -> builtin_int(x)
      [] conversion = "round" -> builtin_round(x)
      [] conversion = "ne_255" -> PyBool(~PyEq(x, PyInt(255)))
      [] conversion = "eq_holiday" -> PyBool(PyEq(x, PyInt(ACTIVE_STATE_HOLIDAY)))

(***************************************************************************)
(* models.process_data.  A dict is a function from its keys; the           *)
(* conversion "" is conversion=None.                                       *)
(***************************************************************************)
\* A variant that keeps a value once it is known.
process_data_KeepKnown(data, key, current_value, conversion) ==
    IF key \notin DOMAIN data THEN current_value
    ELSE IF data[key] = None \/ current_value # None THEN current_value
    ELSE IF conversion = "" THEN data[key]
    ELSE Convert(conversion, data[key])

process_data(data, key, current_value, conversion) ==
    IF key \notin DOMAIN data THEN current_value
    ELSE IF data[key] = None THEN current_value
    ELSE IF conversion = "" THEN data[key]
    ELSE Convert(conversion, data[key])

(***************************************************************************)
(* models.py: the four records.  A record is a function from its field     *)
(* names; a fresh one holds the dataclass defaults.  The class-level       *)
(* default of last_updated is datetime.now() taken once, when the module   *)
(* is imported.  GasUsage and WaterUsage assign self.last_update, an       *)
(* attribute that does not exist before the first update.                  *)
(***************************************************************************)
ImportTime == PyDatetime(0)
Unset == [t |-> "unset", v |-> 0]

ThermostatInfo ==
    [active_state |-> None,
     boiler_module_connected |-> None,
     burner_state |-> None,
     current_display_temperature |-> None,
     current_humidity |-> None,
     current_modulation_level |-> None,
     current_setpoint |-> None,
     error_found |-> None,
     has_boiler_fault |-> None,
     have_opentherm_boiler |-> None,
     holiday_mode |-> None,
     next_program |-> None,
     next_setpoint |-> None,
     next_state |-> None,
     next_time |-> None,
     opentherm_communication_error |-> None,
     program_state |-> None,
     real_setpoint |-> None,
     set_by_load_shifthing |-> None,
     last_updated_from_display |-> None,
     last_updated |-> ImportTime]

PowerUsage ==
    [average |-> None,
     average_produced |-> None,
     average_solar |-> None,
     current |-> None,
     current_produced |-> None,
     current_solar |-> None,
     day_average |-> None,
     day_cost |-> None,
     day_high_usage |-> None,
     day_low_usage |-> None,
     day_max_solar |-> None,
     day_produced_solar |-> None,
     is_smart |-> None,
     meter_high |-> None,
     meter_low |-> None,
     meter_produced_high |-> None,
     meter_produced_low |-> None,
     last_updated_from_display |-> None,
     last_updated |-> ImportTime]

GasUsage ==
    [average |-> None,
     current |-> None,
     day_average |-> None,
     day_cost |-> None,
     day_usage |-> None,
     is_smart |-> None,
     meter |-> None,
     last_updated_from_display |-> None,
     last_updated |-> ImportTime,
     last_update |-> Unset]

WaterUsage ==
    [average |-> None,
     current |-> None,
     day_average |-> None,
     day_cost |-> None,
     day_usage |-> None,
     installed |-> None,
     is_smart |-> None,
     meter |-> None,
     last_updated_from_display |-> None,
     last_updated |-> ImportTime,
     last_update |-> Unset]

(***************************************************************************)
(* The assignments of each update_from_dict, in the order of the source:   *)
(* <<field assigned, wire key, field read as current_value, conversion>>.  *)
(***************************************************************************)
ThermostatInfo_assignments ==
    <<<<"active_state", "activeState", "active_state", "convert_negative_none">>,
      <<"boiler_module_connected", "boilerModuleConnected", "boiler_module_connected", "convert_boolean">>,
      <<"burner_state", "burnerInfo", "burner_state", "int">>,
      <<"current_display_temperature", "currentDisplayTemp", "current_display_temperature", "convert_temperature">>,
      <<"current_humidity", "currentHumidity", "current_humidity", "">>,
      <<"current_modulation_level", "currentModulationLevel", "current_modulation_level", "">>,
      <<"current_setpoint", "currentSetpoint", "current_setpoint", "convert_temperature">>,
      <<"error_found", "errorFound", "error_found", "ne_255">>,
      <<"has_boiler_fault", "hasBoilerFault", "has_boiler_fault", "convert_boolean">>,
      <<"have_opentherm_boiler", "haveOTBoiler", "have_opentherm_boiler", "convert_boolean">>,
      <<"holiday_mode", "activeState", "holiday_mode", "eq_holiday">>,
      <<"next_program", "nextProgram", "next_program", "convert_negative_none">>,
      <<"next_setpoint", "nextSetpoint", "next_setpoint", "convert_temperature">>,
      <<"next_state", "nextState", "next_state", "convert_negative_none">>,
      <<"next_time", "nextTime", "next_state", "convert_datetime">>,
      <<"opentherm_communication_error", "otCommError", "opentherm_communication_error", "convert_boolean">>,
      <<"program_state", "programState", "program_state", "">>,
      <<"real_setpoint", "realSetpoint", "real_setpoint", "convert_temperature">>,
      <<"set_by_load_shifthing", "setByLoadShifting", "set_by_load_shifthing", "convert_boolean">>,
      <<"last_updated_from_display", "lastUpdatedFromDisplay", "last_updated_from_display", "convert_datetime">>>>

PowerUsage_assignments ==
    <<<<"average", "avgValue", "average", "">>,
      <<"average_produced", "avgProduValue", "average_produced", "">>,
      <<"average_solar", "avgSolarValue", "average_solar", "">>,
      <<"current", "value", "current", "round">>,
      <<"current_produced", "valueProduced", "current_produced", "round">>,
      <<"current_solar", "valueSolar", "current_solar", "round">>,
      <<"day_average", "avgDayValue", "day_average", "convert_kwh">>,
      <<"day_cost", "dayCost", "day_cost", "">>,
      <<"day_high_usage", "dayUsage", "day_high_usage", "convert_kwh">>,
      <<"day_low_usage", "dayLowUsage", "day_low_usage", "convert_kwh">>,
      <<"day_max_solar", "maxSolar", "day_max_solar", "">>,
      <<"day_produced_solar", "solarProducedToday", "day_produced_solar", "convert_kwh">>,
      <<"is_smart", "isSmart", "is_smart", "convert_boolean">>,
      <<"meter_high", "meterReading", "meter_high", "convert_kwh">>,
      <<"meter_low", "meterReadingLow", "meter_low", "convert_kwh">>,
      <<"meter_produced_high", "meterReadingProdu", "meter_high", "convert_kwh">>,
      <<"meter_produced_low", "meterReadingLowProdu", "meter_produced_low", "convert_kwh">>,
      <<"last_updated_from_display", "lastUpdatedFromDisplay", "last_updated_from_display", "convert_datetime">>>>

GasUsage_assignments ==
    <<<<"average", "avgValue", "average", "convert_cm3">>,
      <<"current", "value", "current", "convert_cm3">>,
      <<"day_average", "avgDayValue", "day_average", "convert_cm3">>,
      <<"day_cost", "dayCost", "day_cost", "">>,
      <<"day_usage", "dayUsage", "day_usage", "convert_cm3">>,
      <<"is_smart", "isSmart", "is_smart", "convert_boolean">>,
      <<"meter", "meterReading", "meter", "convert_cm3">>,
      <<"last_updated_from_display", "lastUpdatedFromDisplay", "last_updated_from_display", "convert_datetime">>>>

WaterUsage_assignments ==
    <<<<"average", "avgValue", "average", "convert_lmin">>,
      <<"current", "value", "current", "convert_lmin">>,
      <<"day_average", "avgDayValue", "day_average", "convert_m3">>,
      <<"day_cost", "dayCost", "day_cost", "">>,
      <<"day_usage", "dayUsage", "day_usage", "convert_m3">>,
      <<"installed", "installed", "installed", "convert_boolean">>,
      <<"is_smart", "isSmart", "is_smart", "convert_boolean">>,
      <<"meter", "meterReading", "meter", "convert_m3">>,
      <<"last_updated_from_display", "lastUpdatedFromDisplay", "last_updated_from_display", "convert_datetime">>>>

RECURSIVE Assign_LastFirst(_, _, _, _)
\* A variant that makes the assignments in the reverse of the source's order.
Assign_LastFirst(self, data, assignments, i) ==
    IF i > Len(assignments) THEN self
    ELSE LET a == assignments[Len(assignments) + 1 - i] IN
         Assign_LastFirst([self EXCEPT ![a[1]] = process_data(data, a[2], self[a[3]], a[4])],
                          data, assignments, i + 1)

RECURSIVE Assign(_, _, _, _)
\* self.<field> = process_data(data, <key>, self.<current>, <conversion>), for
\* the assignments from the i-th on, each reading what the earlier ones wrote.
Assign(self, data, assignments, i) ==
    IF i > Len(assignments) THEN self
    ELSE LET a == assignments[i] IN
         Assign([self EXCEPT ![a[1]] = process_data(data, a[2], self[a[3]], a[4])],
                data, assignments, i + 1)

ThermostatInfo_update_from_dict(self, data, time) ==
    [Assign(self, data, ThermostatInfo_assignments, 1) EXCEPT !.last_updated = time]

PowerUsage_update_from_dict(self, data, time) ==
    [Assign(self, data, PowerUsage_assignments, 1) EXCEPT !.last_updated = time]

GasUsage_update_from_dict(self, data, time) ==
    [Assign(self, data, GasUsage_assignments, 1) EXCEPT !.last_update = time]

WaterUsage_update_from_dict(self, data, time) ==
    [Assign(self, data, WaterUsage_assignments, 1) EXCEPT !.last_update = time]

(***************************************************************************)
(* The derived properties of ThermostatInfo, lines 110-150, and of         *)
(* PowerUsage, lines 245-273.                                              *)
(***************************************************************************)
burner(self) ==
    IF self.burner_state = None THEN None
    ELSE PyBool(Truthy(self.burner_state))

hot_tapwater(self) ==
    IF self.burner_state = None THEN None
    ELSE PyBool(PyEq(self.burner_state, PyInt(BURNER_STATE_TAP_WATER)))

heating(self) ==
    IF self.burner_state = None THEN None
    ELSE PyBool(PyEq(self.burner_state, PyInt(BURNER_STATE_ON)))

pre_heating(self) ==
    IF self.burner_state = None THEN None
    ELSE PyBool(PyEq(self.burner_state, PyInt(BURNER_STATE_PREHEATING)))

program(self) ==
    IF self.program_state = None THEN None
    ELSE PyBool(\/ PyEq(self.program_state, PyInt(PROGRAM_STATE_ON))
                \/ PyEq(self.program_state, PyInt(PROGRAM_STATE_OVERRIDE)))

program_overridden(self) ==
    IF self.program_state = None THEN None
    ELSE PyBool(PyEq(self.program_state, PyInt(PROGRAM_STATE_OVERRIDE)))

\* round(x, 2) of a number of thousandths.
Round2(thousandths) == RoundHalfEven(thousandths, 10) * 10

\* A variant that counts an unknown tariff as zero.
day_usage_UnknownAsZero(self) ==
    PyFloat(Round2((IF self.day_high_usage = None THEN 0
                    ELSE Thousandths(self.day_high_usage))
                   + (IF self.day_low_usage = None THEN 0
                      ELSE Thousandths(self.day_low_usage))))

day_usage(self) ==
    IF self.day_high_usage = None \/ self.day_low_usage = None THEN None
    ELSE PyFloat(Round2(Thousandths(self.day_high_usage)
                        + Thousandths(self.day_low_usage)))

\* abs(min(0.0, x)) of a number of thousandths.
AbsMinZero(thousandths) == IF thousandths < 0 THEN -thousandths ELSE 0

day_to_grid_usage(self) ==
    IF day_usage(self) = None \/ self.day_produced_solar = None THEN None
    ELSE PyFloat(AbsMinZero(Round2(Thousandths(day_usage(self))
                                   - Thousandths(self.day_produced_solar))))

day_from_grid_usage(self) ==
    IF self.day_produced_solar = None \/ day_usage(self) = None THEN None
    ELSE PyFloat(AbsMinZero(Round2(Thousandths(self.day_produced_solar)
                                   - Thousandths(day_usage(self)))))

\* round((current_solar / current) * 100): the quotient rounded to the
\* nearest int, for a divisor of either sign.
RoundedPercentage(current_solar, current) ==
    IF current > 0 THEN RoundHalfEven(100 * current_solar, current)
    ELSE RoundHalfEven(-100 * current_solar, -current)

\* A variant without the cap at 100.
current_covered_by_solar_Uncapped(self) ==
    IF self.current_solar = None \/ self.current = None THEN None
    ELSE IF self.current.v = 0 THEN PyInt(0)
    ELSE PyInt(RoundedPercentage(self.current_solar.v, self.current.v))

current_covered_by_solar(self) ==
    IF self.current_solar = None \/ self.current = None THEN None
    ELSE IF self.current.v = 0 THEN PyInt(0)
    ELSE LET percentage == RoundedPercentage(self.current_solar.v, self.current.v)
         IN  PyInt(IF percentage > 100 THEN 100 ELSE percentage)

(***************************************************************************)
(* SpecRequest: one call of Toon._request.  Each attempt draws what the    *)
(* transport does; the decorators decide whether another attempt follows.  *)
(* attempts counts the attempts of the call; all429 and allConn record     *)
(* whether every attempt so far was answered with 429, or failed in the    *)
(* transport (timeout or client error).                                    *)
(***************************************************************************)
Statuses == {200, 201, 204, 302, 399, 400, 404, 429, 499, 500, 503, 599, 600}
ContentTypes == {CT_JSON, CT_JSON_UTF8, CT_TEXT, CT_MISSING}
Bodies == {PyStr(1), PyStr(2)}

Outcomes ==
    {Timeout, ClientError}
        \cup {Response(s, c, b) : s \in Statuses, c \in ContentTypes, b \in Bodies}

RqIdle ==
    [pc |-> "idle", retry |-> NewRetry, attempts |-> 0, all429 |-> TRUE, allConn |-> TRUE,
     outcome |-> Timeout, res |-> Pending, result |-> Pending]

\* The caller awaits self._request(...).
RqCall ==
    /\ rq.pc = "idle"
    /\ rq' = [RqIdle EXCEPT !.pc = "attempt"]
    /\ UNCHANGED <<rec, now, toon, shared, task, sessions>>

\* One attempt, lines 78-144, and the decorators' decision on it.
RqAttempt ==
    /\ rq.pc = "attempt"
    /\ \E outcome \in Outcomes :
         LET res == AttemptResult(outcome)
             after == AfterAttempt(rq.retry, res)
         IN  rq' = [pc |-> IF after.result.kind = "pending" THEN "attempt" ELSE "done",
                    retry |-> after.retry,
                    attempts |-> rq.attempts + 1,
                    all429 |-> rq.all429 /\ outcome.io = "response" /\ outcome.status = 429,
                    allConn |-> rq.allConn /\ outcome.io # "response",
                    outcome |-> outcome,
                    res |-> res,
                    result |-> after.result]
    /\ UNCHANGED <<rec, now, toon, shared, task, sessions>>

\* The call has returned or raised; the caller goes on.
RqDone ==
    /\ rq.pc = "done"
    /\ rq' = RqIdle
    /\ UNCHANGED <<rec, now, toon, shared, task, sessions>>

(***************************************************************************)
(* SpecRecord: one record of models.py, fresh at first, updated with       *)
(* payloads drawn from Payloads(kind) while the clock advances.            *)
(***************************************************************************)
MaxUpdates == 2
MaxClock == 2

RecordKinds == {"ThermostatInfo", "PowerUsage", "GasUsage", "WaterUsage"}

FreshRecord(kind) ==
    CASE kind = "ThermostatInfo" -> ThermostatInfo
      [] kind = "PowerUsage" -> PowerUsage
      [] kind = "GasUsage" -> GasUsage
      [] kind = "WaterUsage" -> WaterUsage

Assignments(kind) ==
    CASE kind = "ThermostatInfo" -> ThermostatInfo_assignments
      [] kind = "PowerUsage" -> PowerUsage_assignments
      [] kind = "GasUsage" -> GasUsage_assignments
      [] kind = "WaterUsage" -> WaterUsage_assignments

update_from_dict(kind, self, data, time) ==
    CASE kind = "ThermostatInfo" -> ThermostatInfo_update_from_dict(self, data, time)
      [] kind = "PowerUsage" -> PowerUsage_update_from_dict(self, data, time)
      [] kind = "GasUsage" -> GasUsage_update_from_dict(self, data, time)
      [] kind = "WaterUsage" -> WaterUsage_update_from_dict(self, data, time)

\* Wire values of the type each conversion is written for.
WireValues(conversion) ==
    CASE conversion = "convert_negative_none" -> {PyInt(-1), PyInt(0), PyInt(4)}
      [] conversion = "eq_holiday" -> {PyInt(-1), PyInt(0), PyInt(4)}
      [] conversion = "convert_boolean" -> {PyBool(FALSE), PyInt(1)}
      [] conversion = "int" -> {PyStr(2), PyInt(1), PyInt(0), PyInt(3)}
      [] conversion = "convert_temperature" -> {PyInt(2150), PyInt(1800)}
      [] conversion = "" -> {PyInt(2), PyInt(7)}
      [] conversion = "ne_255" -> {PyInt(255), PyInt(0)}
      [] conversion = "convert_datetime" -> {PyInt(1500), PyInt(2001)}
      [] conversion = "round" -> {PyInt(200), PyFloat(50500), PyInt(0), PyInt(1)}
      [] conversion = "convert_lmin" -> {PyInt(90), PyInt(75)}
      [] OTHER -> {PyInt(1234), PyInt(5678)}

EmptyDict == [k \in {} |-> None]

\* A payload that carries every wire key of a record kind with a value.
FullPayload(kind) ==
    LET rows == Assignments(kind) IN
    [k \in {rows[i][2] : i \in 1..Len(rows)} |->
        LET i == CHOOSE i \in 1..Len(rows) : rows[i][2] = k
        IN  CHOOSE x \in WireValues(rows[i][4]) : TRUE]

\* The payloads of a record kind: the empty one, one with an unrecognized
\* key, the full one, and for every wire key the payloads carrying that key
\* alone, with null or with a value.
Payloads(kind) ==
    LET rows == Assignments(kind) IN
    {EmptyDict, "unrecognizedKey" :> PyInt(1), FullPayload(kind)}
        \cup UNION {{rows[i][2] :> x : x \in WireValues(rows[i][4]) \cup {None}}
                    : i \in 1..Len(rows)}

RecInit(kind) ==
    [kind |-> kind, n |-> 0, data |-> EmptyDict,
     prev |-> FreshRecord(kind), cur |-> FreshRecord(kind)]

\* record.update_from_dict(data)
RecUpdate ==
    /\ rec.n < MaxUpdates
    /\ \E data \in Payloads(rec.kind) :
         rec' = [rec EXCEPT !.n = @ + 1, !.data = data, !.prev = rec.cur,
                            !.cur = update_from_dict(rec.kind, rec.cur, data, PyDatetime(now))]
    /\ UNCHANGED <<rq, now, toon, shared, task, sessions>>

\* Time passes.
Tick ==
    /\ now < MaxClock
    /\ now' = now + 1
    /\ UNCHANGED <<rq, rec, toon, shared, task, sessions>>

(***************************************************************************)
(* models.Agreement and models.Status.                                     *)
(***************************************************************************)
\* dict.get(key): the value, or None when the key is missing.
Get(data, key) == IF key \in DOMAIN data THEN data[key] ELSE None

Agreement_from_dict(data) ==
    [agreement_id_checksum |-> Get(data, "agreementIdChecksum"),
     agreement_id |-> Get(data, "agreementId"),
     city |-> Get(data, "city"),
     display_common_name |-> Get(data, "displayCommonName"),
     display_hardware_version |-> Get(data, "displayHardwareVersion"),
     display_software_version |-> Get(data, "displaySoftwareVersion"),
     heating_type |-> Get(data, "heatingType"),
     house_number |-> Get(data, "houseNumber"),
     is_toon_solar |-> Get(data, "isToonSolar"),
     is_toonly |-> Get(data, "isToonly"),
     postal_code |-> Get(data, "postalCode"),
     street |-> Get(data, "street")]

\* The class attributes of Status, lines 403-406: one ThermostatInfo, one
\* PowerUsage, one GasUsage and one WaterUsage, made when the class is.
StatusClassAttributes ==
    [thermostat |-> ThermostatInfo, power_usage |-> PowerUsage,
     gas_usage |-> GasUsage, water_usage |-> WaterUsage]

\* Status(agreement): __init__ sets agreement alone; every other attribute
\* of the instance is read from the class until the instance assigns it.
Status(agreement) ==
    [t |-> "Status", agreement |-> agreement, last_updated_from_display |-> None,
     last_updated |-> ImportTime, server_time |-> None]

NoStatus == [Status(Agreement_from_dict(EmptyDict)) EXCEPT !.t = "none"]

\* One `if "<key>" in data: self.<field>.update_from_dict(data["<key>"])` of
\* Status.update_from_dict, on what the statements before it left; `updated`
\* is the record after its update.  A null section raises a TypeError in
\* process_data (`key not in None`).
UpdateSection(acc, data, key, field, updated) ==
    IF acc.raised \/ key \notin DOMAIN data THEN acc
    ELSE IF data[key] = None THEN [acc EXCEPT !.raised = TRUE]
    ELSE [acc EXCEPT !.records[field] = updated]

\* One `if "<key>" in data: self.<field> = convert_datetime(data["<key>"])`.
\* convert_datetime(None) raises a TypeError.
UpdateTimestamp(acc, data, key, field) ==
    IF acc.raised \/ key \notin DOMAIN data THEN acc
    ELSE IF data[key] = None THEN [acc EXCEPT !.raised = TRUE]
    ELSE [acc EXCEPT !.self[field] = convert_datetime(data[key])]

\* The statements of Status.update_from_dict before the last, lines 418-431.
\* self.thermostat, self.power_usage, self.gas_usage and self.water_usage
\* are the class attributes, updated in place.
Status_sections(self, records, data, time) ==
    UpdateTimestamp(
      UpdateTimestamp(
        UpdateSection(
          UpdateSection(
            UpdateSection(
              UpdateSection([self |-> self, records |-> records, raised |-> FALSE],
                            data, "thermostatInfo", "thermostat",
                            ThermostatInfo_update_from_dict(
                                records.thermostat, data["thermostatInfo"], time)),
              data, "powerUsage", "power_usage",
              PowerUsage_update_from_dict(records.power_usage, data["powerUsage"], time)),
            data, "gasUsage", "gas_usage",
            GasUsage_update_from_dict(records.gas_usage, data["gasUsage"], time)),
          data, "waterUsage", "water_usage",
          WaterUsage_update_from_dict(records.water_usage, data["waterUsage"], time)),
        data, "lastUpdateFromDisplay", "last_updated_from_display"),
      data, "serverTime", "server_time")

\* self.last_updated = datetime.now(), line 432, unless a statement raised.
Status_finish(acc, time) ==
    IF acc.raised THEN acc ELSE [acc EXCEPT !.self.last_updated = time]

\* Status.update_from_dict: [self, records, raised].  An exception leaves
\* what the statements before it assigned.
Status_update_from_dict(self, records, data, time) ==
    Status_finish(Status_sections(self, records, data, time), time)

(***************************************************************************)
(* SpecStatus: one Status, as activate_agreement makes it, updated with    *)
(* payloads drawn from StatusUpdatePayloads while the clock advances.  rec *)
(* holds the Status and the four records before and after the last update, *)
(* the payload of that update, and whether it raised.                      *)
(***************************************************************************)
\* The payloads with or without `key`, which carries one of `values`.
Optional(key, values) == {EmptyDict} \cup {key :> x : x \in values}

\* The aggregate timestamps a payload may carry.
TimestampPayloads ==
    {EmptyDict,
     "lastUpdateFromDisplay" :> None, "lastUpdateFromDisplay" :> PyInt(1500),
     "serverTime" :> None, "serverTime" :> PyInt(2001),
     ("lastUpdateFromDisplay" :> PyInt(1500)) @@ ("serverTime" :> PyInt(2001))}

\* Every choice of sections with every choice of timestamps, and two
\* payloads with an unrecognized key.
StatusUpdatePayloads ==
    {a @@ b @@ c @@ d @@ e :
        a \in Optional("thermostatInfo", {None, [currentSetpoint |-> PyInt(2150)]}),
        b \in Optional("powerUsage", {[value |-> PyInt(200)]}),
        c \in Optional("gasUsage", {[value |-> PyInt(1234)]}),
        d \in Optional("waterUsage", {[value |-> PyInt(90)]}),
        e \in TimestampPayloads}
        \cup {"unrecognizedKey" :> PyInt(1),
              ("unrecognizedKey" :> PyInt(1)) @@ ("serverTime" :> PyInt(2001))
                  @@ ("gasUsage" :> [unrecognizedKey |-> PyInt(1)])}

StatusInit ==
    LET made == [self |-> Status(Agreement_from_dict(EmptyDict)),
                 records |-> StatusClassAttributes]
    IN  [kind |-> "Status", n |-> 0, data |-> EmptyDict,
         prev |-> made, cur |-> made, raised |-> FALSE]

\* status.update_from_dict(data)
StatusUpdate ==
    /\ rec.kind = "Status"
    /\ rec.n < MaxUpdates
    /\ \E data \in StatusUpdatePayloads :
         LET u == Status_update_from_dict(rec.cur.self, rec.cur.records, data,
                                          PyDatetime(now))
         IN  rec' = [rec EXCEPT !.n = @ + 1, !.data = data, !.prev = rec.cur,
                                !.cur = [self |-> u.self, records |-> u.records],
                                !.raised = u.raised]
    /\ UNCHANGED <<rq, now, toon, shared, task, sessions>>

(***************************************************************************)
(* toon.py: the Toon client.  toon[c] holds the attributes of client c;    *)
(* _agreements is None or a list, _status is None or a Status.             *)
(***************************************************************************)
Clients == {"c1", "c2"}
Tasks == {"t1"}

NoList == [t |-> "none", items |-> <<>>]
List(items) == [t |-> "list", items |-> items]

\* A reference to the i-th ClientSession made, and a ClientSession as made.
SessionRef(i) == [t |-> "ClientSession", v |-> i]
ClientSession(creator) == [creator |-> creator, closed |-> FALSE]

\* The token passed to the constructor, and those the callback may return.
Token0 == PyStr(20)
RefreshedTokens == {PyStr(21), PyStr(22)}

\* The class-level defaults of Toon, lines 36-39; display_common_name is an
\* attribute only from the first activation on (line 168).
NewToon ==
    [agreement_id |-> None, _agreements |-> NoList, _status |-> NoStatus,
     display_common_name |-> Unset, _close_session |-> FALSE,
     _session |-> None, token |-> Token0, token_refresh_method |-> FALSE]

\* Toon.__init__, lines 54-60: the session passed (or None), the token, and
\* whether a token_refresh_method was passed.
Toon(session, token_refresh_method, token) ==
    [NewToon EXCEPT !._session = session, !.token = token,
                    !.token_refresh_method = token_refresh_method]

\* A call of a facade operation: its name and its arguments, the arguments
\* of the other operations at their defaults.
NoCall ==
    [name |-> "", force_update |-> FALSE, agreement_id |-> None,
     display_common_name |-> None, agreement |-> None, data |-> None,
     temperature |-> None, active_state |-> None, program_state |-> None,
     application_id |-> None, url |-> None]

\* A call of self._request(uri, data=, method=, no_agreement=): the endpoint
\* and the agreement id formatted into the uri, and the headers of the
\* attempt sent last.
NoHeaders == [authorization |-> Unset, common_name |-> Unset, agreement_id |-> Unset]
NoRequest ==
    [method |-> "", endpoint |-> "", uri_agreement_id |-> None,
     uri_application_id |-> None, data |-> None,
     no_agreement |-> FALSE, headers |-> NoHeaders]
Request(method, endpoint, uri_agreement_id, data, no_agreement) ==
    [method |-> method, endpoint |-> endpoint, uri_agreement_id |-> uri_agreement_id,
     uri_application_id |-> None,
     data |-> data, no_agreement |-> no_agreement, headers |-> NoHeaders]

(***************************************************************************)
(* Toon.activate_agreement, lines 157-171: the part after the list is      *)
(* known.  [toon, result]                                                  *)
(***************************************************************************)
Matches(known_agreement, call) ==
    \/ known_agreement = call.agreement
    \/ known_agreement.agreement_id = call.agreement_id
    \/ known_agreement.display_common_name = call.display_common_name

NoAgreementsError ==
    Raise("ToonError", "No agreements found on linked account", NoBody)
NotFoundError ==
    Raise("ToonError", "Agreement could not be found on the linked account", NoBody)

\* A variant without the test for an empty list.
Select_NoEmptyCheck(self, call) ==
    LET known == self._agreements.items
        hits == {i \in 1..Len(known) : Matches(known[i], call)}
    IN  IF hits = {}
        THEN [toon |-> self, result |-> NotFoundError]
        ELSE LET known_agreement == known[CHOOSE i \in hits : \A j \in hits : i <= j] IN
             [toon |-> [self EXCEPT !._status = Status(known_agreement),
                                    !.agreement_id = known_agreement.agreement_id,
                                    !.display_common_name =
                                        known_agreement.display_common_name],
              result |-> Return([tag |-> "Agreement", status |-> 0,
                                 body |-> known_agreement])]

Select(self, call) ==
    LET known == self._agreements.items
        hits == {i \in 1..Len(known) : Matches(known[i], call)}
    IN  IF self._agreements.t = "none" \/ Len(known) = 0
        THEN [toon |-> self, result |-> NoAgreementsError]
        ELSE IF hits = {}
        THEN [toon |-> self, result |-> NotFoundError]
        ELSE LET known_agreement == known[CHOOSE i \in hits : \A j \in hits : i <= j] IN
             [toon |-> [self EXCEPT !._status = Status(known_agreement),
                                    !.agreement_id = known_agreement.agreement_id,
                                    !.display_common_name =
                                        known_agreement.display_common_name],
              result |-> Return([tag |-> "Agreement", status |-> 0,
                                 body |-> known_agreement])]

(***************************************************************************)
(* The facade operations up to their first await of self._request:         *)
(* [request] when they call it, [toon, records, result] when they end      *)
(* without.                                                                *)
(***************************************************************************)
Ended(self, records, result) ==
    [ended |-> TRUE, toon |-> self, records |-> records, result |-> result,
     request |-> NoRequest]
Calls(self, records, request) ==
    [ended |-> FALSE, toon |-> self, records |-> records, result |-> Pending,
     request |-> request]

AssertionError == Raise("AssertionError", "", NoBody)

\* A variant that truncates temperature * 100 instead of rounding it.
SetpointData_Truncated(temperature) ==
    [currentSetpoint |-> PyInt((temperature.v * 100) \div 1000),
     programState |-> PyInt(PROGRAM_STATE_OVERRIDE),
     activeState |-> PyInt(ACTIVE_STATE_OFF)]

\* The payload of set_current_setpoint, lines 196-200.
SetpointData(temperature) ==
    [currentSetpoint |-> PyInt(RoundHalfEven(temperature.v * 100, 1000)),
     programState |-> PyInt(PROGRAM_STATE_OVERRIDE),
     activeState |-> PyInt(ACTIVE_STATE_OFF)]

\* The payload of set_active_state, line 213.
ActiveStateData(active_state, program_state) ==
    [programState |-> program_state, activeState |-> active_state]

HasStatus(self) == self._status.t # "none"

ReturnStatus(status) == Return([tag |-> "Status", status |-> 0, body |-> status])
ReturnList(list) == Return([tag |-> "list", status |-> 0, body |-> list])

\* A variant that ignores force_update.
Begin_agreements_IgnoreForce(self, records, call) ==
    IF self._agreements.t = "none"
    THEN Calls(self, records, Request("GET", "agreements", None, None, TRUE))
    ELSE Ended(self, records, ReturnList(self._agreements.items))

Begin_agreements(self, records, call) ==
    IF self._agreements.t = "none" \/ call.force_update
    THEN Calls(self, records, Request("GET", "agreements", None, None, TRUE))
    ELSE Ended(self, records, ReturnList(self._agreements.items))

Begin_activate_agreement(self, records, call) ==
    IF self._agreements.t = "none"
    THEN Begin_agreements(self, records, [call EXCEPT !.force_update = FALSE])
    ELSE LET sel == Select(self, call) IN Ended(sel.toon, records, sel.result)

\* A variant without the assertion: the status is fetched for whatever
\* agreement_id holds.
Begin_update_NoAssert(self, records, call, time) ==
    IF call.data = None
    THEN Calls(self, records, Request("GET", "status", self.agreement_id, None, FALSE))
    ELSE LET u == Status_update_from_dict(self._status, records, call.data, time) IN
         Ended([self EXCEPT !._status = u.self], u.records, ReturnStatus(u.self))

Begin_update(self, records, call, time) ==
    IF ~HasStatus(self) THEN Ended(self, records, AssertionError)
    ELSE IF call.data = None
    THEN Calls(self, records, Request("GET", "status", self.agreement_id, None, FALSE))
    ELSE LET u == Status_update_from_dict(self._status, records, call.data, time) IN
         Ended([self EXCEPT !._status = u.self], u.records,
               IF u.raised THEN Raise("TypeError", "", NoBody) ELSE ReturnStatus(u.self))

Begin_set_current_setpoint(self, records, call) ==
    IF ~HasStatus(self) THEN Ended(self, records, AssertionError)
    ELSE Calls(self, records,
               Request("PUT", "thermostat", self.agreement_id,
                       SetpointData(call.temperature), FALSE))

Begin_set_active_state(self, records, call) ==
    IF ~HasStatus(self) THEN Ended(self, records, AssertionError)
    ELSE Calls(self, records,
               Request("PUT", "thermostat", self.agreement_id,
                       ActiveStateData(call.active_state, call.program_state), FALSE))

\* The payload of subscribe_webhook, lines 230-239.
WebhookData(application_id, url) ==
    [applicationId |-> application_id, callbackUrl |-> url,
     subscribedActions |-> <<"BoilerErrorInfo", "GasUsage", "PowerUsage", "Thermostat">>]

\* Toon.unsubscribe_webhook, lines 244-247.
Begin_unsubscribe_webhook(self, records, call) ==
    Calls(self, records,
          [Request("DELETE", "webhooks/application_id", self.agreement_id, None, FALSE)
              EXCEPT !.uri_application_id = call.application_id])

\* Toon.subscribe_webhook, line 224: it awaits unsubscribe_webhook first.
Begin_subscribe_webhook(self, records, call) ==
    Begin_unsubscribe_webhook(self, records, call)

\* Toon.close, lines 251-252: the sessions after it.  A ClientSession is
\* truthy; closing a closed one changes nothing.
close(self, all) ==
    IF self._session # None /\ self._close_session
    THEN [all EXCEPT ![self._session.v].closed = TRUE]
    ELSE all

Begin_close(self, records, call) == Ended(self, records, Return(NoBody))

BeginCall(self, records, call, time) ==
    CASE call.name = "agreements" -> Begin_agreements(self, records, call)
      [] call.name = "activate_agreement" -> Begin_activate_agreement(self, records, call)
      [] call.name = "update" -> Begin_update(self, records, call, time)
      [] call.name = "set_current_setpoint" -> Begin_set_current_setpoint(self, records, call)
      [] call.name = "set_active_state" -> Begin_set_active_state(self, records, call)
      [] call.name = "subscribe_webhook" -> Begin_subscribe_webhook(self, records, call)
      [] call.name = "unsubscribe_webhook" -> Begin_unsubscribe_webhook(self, records, call)
      [] call.name = "close" -> Begin_close(self, records, call)

(***************************************************************************)
(* The facade operations from the point where self._request has returned   *)
(* or raised `res`, to their end.  An exception of _request is caught      *)
(* nowhere: it ends the operation.                                         *)
(***************************************************************************)
\* Toon.agreements, lines 179-182.
Store_agreements(self, res) ==
    [self EXCEPT !._agreements =
        List([i \in 1..Len(res.value.body) |-> Agreement_from_dict(res.value.body[i])])]

Resume_agreements(self, records, call, res) ==
    IF res.kind = "raise" THEN Ended(self, records, res)
    ELSE LET stored == Store_agreements(self, res) IN
         Ended(stored, records, ReturnList(stored._agreements.items))

Resume_activate_agreement(self, records, call, res) ==
    IF res.kind = "raise" THEN Ended(self, records, res)
    ELSE LET sel == Select(Store_agreements(self, res), call) IN
         Ended(sel.toon, records, sel.result)

\* Toon.update, line 191.
Resume_update(self, records, call, res, time) ==
    IF res.kind = "raise" THEN Ended(self, records, res)
    ELSE LET u == Status_update_from_dict(self._status, records, res.value.body, time) IN
         Ended([self EXCEPT !._status = u.self], u.records,
               IF u.raised THEN Raise("TypeError", "", NoBody) ELSE ReturnStatus(u.self))

\* A variant that records the new thermostat state whatever became of the PUT.
Resume_thermostat_Optimistic(self, records, request, res, time) ==
    Ended(self,
          [records EXCEPT !.thermostat =
               ThermostatInfo_update_from_dict(@, request.data, time)],
          IF res.kind = "raise" THEN res ELSE Return(NoBody))

\* Toon.set_current_setpoint, line 206, and Toon.set_active_state, line 219.
Resume_thermostat(self, records, request, res, time) ==
    IF res.kind = "raise" THEN Ended(self, records, res)
    ELSE Ended(self,
               [records EXCEPT !.thermostat =
                    ThermostatInfo_update_from_dict(@, request.data, time)],
               Return(NoBody))

\* Toon.unsubscribe_webhook, line 247: nothing follows the request.
Resume_unsubscribe_webhook(self, records, call, res) ==
    IF res.kind = "raise" THEN Ended(self, records, res)
    ELSE Ended(self, records, Return(NoBody))

\* A variant that registers the webhook whatever became of the DELETE.
Resume_subscribe_webhook_Regardless(self, records, call, request, res) ==
    IF request.method = "DELETE"
    THEN Calls(self, records,
               Request("POST", "webhooks", self.agreement_id,
                       WebhookData(call.application_id, call.url), FALSE))
    ELSE IF res.kind = "raise" THEN Ended(self, records, res)
    ELSE Ended(self, records, Return(NoBody))

\* Toon.subscribe_webhook, lines 224-240: after the DELETE of
\* unsubscribe_webhook has returned the POST follows; an exception of either
\* request ends the operation.
Resume_subscribe_webhook(self, records, call, request, res) ==
    IF res.kind = "raise" THEN Ended(self, records, res)
    ELSE IF request.method = "DELETE"
    THEN Calls(self, records,
               Request("POST", "webhooks", self.agreement_id,
                       WebhookData(call.application_id, call.url), FALSE))
    ELSE Ended(self, records, Return(NoBody))

ResumeCall(self, records, call, request, res, time) ==
    CASE call.name = "agreements" -> Resume_agreements(self, records, call, res)
      [] call.name = "activate_agreement" -> Resume_activate_agreement(self, records, call, res)
      [] call.name = "update" -> Resume_update(self, records, call, res, time)
      [] call.name \in {"set_current_setpoint", "set_active_state"} ->
            Resume_thermostat(self, records, request, res, time)
      [] call.name = "subscribe_webhook" ->
            Resume_subscribe_webhook(self, records, call, request, res)
      [] call.name = "unsubscribe_webhook" ->
            Resume_unsubscribe_webhook(self, records, call, res)

(***************************************************************************)
(* Spec: the clients and their callers.  A caller runs one facade          *)
(* operation at a time; the operation is suspended while an attempt of     *)
(* self._request waits for the transport.  task[t] holds the operation of  *)
(* caller t: its client and call, the request it awaits with its retry     *)
(* state, the number of calls of self._request it made, the outcome of the *)
(* attempt that ended its request, its result, and the clients and records *)
(* as they were when it began.                                             *)
(***************************************************************************)
A1 == PyStr(1)
A2 == PyStr(2)
A3 == PyStr(3)
A9 == PyStr(9)
Home == PyStr(11)
Cabin == PyStr(12)

WireAgreement1 == [agreementId |-> A1, displayCommonName |-> Home]
WireAgreement2 == [agreementId |-> A2, displayCommonName |-> Cabin]
\* An entry without a display name.
WireAgreement3 == [agreementId |-> A3]

\* What the agreements endpoint may answer.
AgreementLists ==
    {<<>>, <<WireAgreement1, WireAgreement2>>, <<WireAgreement3, WireAgreement1>>}

\* What the status endpoint may answer.
StatusPayloads ==
    {[thermostatInfo |-> [currentSetpoint |-> PyInt(1800), programState |-> PyInt(1),
                          nextState |-> PyInt(1)],
      powerUsage |-> [value |-> PyInt(200), valueSolar |-> PyInt(50)],
      gasUsage |-> [value |-> PyInt(1234)],
      waterUsage |-> [value |-> PyInt(90)]]}

\* 21.5, 20.125 (a tie of round()) and 21.567.
Temperatures == {PyFloat(21500), PyFloat(20125), PyFloat(21567)}

FacadeCalls ==
    {[NoCall EXCEPT !.name = "agreements", !.force_update = f] : f \in BOOLEAN}
        \cup {[NoCall EXCEPT !.name = "activate_agreement", !.agreement_id = a]
                : a \in {A1, A9}}
        \cup {[NoCall EXCEPT !.name = "activate_agreement", !.display_common_name = Cabin],
              [NoCall EXCEPT !.name = "activate_agreement",
                             !.agreement = Agreement_from_dict(WireAgreement1)]}
        \cup {[NoCall EXCEPT !.name = "update"]}
        \cup {[NoCall EXCEPT !.name = "update", !.data = d] : d \in StatusPayloads}
        \cup {[NoCall EXCEPT !.name = "set_current_setpoint", !.temperature = x]
                : x \in Temperatures}
        \cup {[NoCall EXCEPT !.name = "set_active_state", !.active_state = PyInt(0),
                             !.program_state = PyInt(PROGRAM_STATE_ON)]}

\* What the transport may do with an attempt of a request.
ServerOutcomes(request) ==
    {Timeout, ClientError, Response(429, CT_JSON, PyStr(1)), Response(500, CT_TEXT, PyStr(1))}
        \cup CASE request.endpoint = "agreements" ->
                    {Response(200, CT_JSON, l) : l \in AgreementLists}
               [] request.endpoint = "status" ->
                    {Response(200, CT_JSON_UTF8, d) : d \in StatusPayloads}
               [] OTHER -> {Response(204, CT_MISSING, None)}

\* SpecClients: the operations each of the two clients runs, and what the
\* transport does with their attempts.
ClientsCalls ==
    {[NoCall EXCEPT !.name = "activate_agreement", !.agreement_id = A1],
     [NoCall EXCEPT !.name = "activate_agreement", !.display_common_name = Cabin],
     [NoCall EXCEPT !.name = "update"],
     [NoCall EXCEPT !.name = "set_current_setpoint", !.temperature = PyFloat(21500)],
     [NoCall EXCEPT !.name = "set_active_state", !.active_state = PyInt(0),
                    !.program_state = PyInt(PROGRAM_STATE_ON)]}

ClientsOutcomes(request) ==
    {Timeout}
        \cup CASE request.endpoint = "agreements" ->
                    {Response(200, CT_JSON, <<WireAgreement1, WireAgreement2>>)}
               [] request.endpoint = "status" ->
                    {Response(200, CT_JSON_UTF8, d) : d \in StatusPayloads}
               [] OTHER -> {Response(204, CT_MISSING, None)}

NoSnapshot == [toon |-> <<>>, shared |-> <<>>]

TaskIdle ==
    [pc |-> "idle", client |-> "", call |-> NoCall, request |-> NoRequest,
     retry |-> NewRetry, calls |-> 0, response |-> Timeout, result |-> Pending,
     pre |-> NoSnapshot, invoked |-> 0, returned |-> Unset, completed |-> <<>>]

\* What an operation keeps of the clients and records as they were when it
\* began.
Snapshot == [toon |-> toon, shared |-> shared]

\* What is kept of a call of self._request that has ended.
Completed(request, kind) ==
    [method |-> request.method, endpoint |-> request.endpoint,
     uri_application_id |-> request.uri_application_id, kind |-> kind]

\* A caller calls a facade operation of client c, which runs to its first
\* await of self._request or to its end.
Begin(t, c, call, pre) ==
    /\ task[t].pc = "idle"
    /\ LET b == BeginCall(toon[c], shared, call, PyDatetime(now)) IN
         /\ toon' = [toon EXCEPT ![c] = b.toon]
         /\ shared' = b.records
         /\ task' = [task EXCEPT ![t] =
                [TaskIdle EXCEPT
                    !.pc = IF b.ended THEN "done" ELSE "send",
                    !.client = c, !.call = call, !.request = b.request,
                    !.calls = IF b.ended THEN 0 ELSE 1,
                    !.result = b.result,
                    !.pre = pre]]
    /\ sessions' = IF call.name = "close" THEN close(toon[c], sessions) ELSE sessions
    /\ UNCHANGED <<rq, rec, now>>

\* A variant that attaches the agreement headers to exempt calls too.
Headers_IgnoreExempt(self, request) ==
    IF HasStatus(self)
    THEN [authorization |-> self.token,
          common_name |-> self._status.agreement.display_common_name,
          agreement_id |-> self._status.agreement.agreement_id]
    ELSE [NoHeaders EXCEPT !.authorization = self.token]

\* Toon._request, lines 91-103: the headers of an attempt.
Headers(self, request) ==
    IF ~request.no_agreement /\ HasStatus(self)
    THEN [authorization |-> self.token,
          common_name |-> self._status.agreement.display_common_name,
          agreement_id |-> self._status.agreement.agreement_id]
    ELSE [NoHeaders EXCEPT !.authorization = self.token]

\* A variant that creates a session for every attempt.
EnsureSession_Always(self, all) ==
    [toon |-> [self EXCEPT !._session = SessionRef(Len(all) + 1),
                           !._close_session = TRUE],
     sessions |-> Append(all, ClientSession("Toon"))]

\* Toon._request, lines 105-107: the client makes its session when it has
\* none.  [toon, sessions]
EnsureSession(self, all) ==
    IF self._session = None
    THEN [toon |-> [self EXCEPT !._session = SessionRef(Len(all) + 1),
                                !._close_session = TRUE],
          sessions |-> Append(all, ClientSession("Toon"))]
    ELSE [toon |-> self, sessions |-> all]

\* A variant that keeps the token the client held.
RefreshedToken_Kept(self, returned) == self.token

\* Toon._request, line 79: self.token after the callback has returned.
RefreshedToken(self, returned) == returned

SessionClosedError == Raise("RuntimeError", "Session is closed", NoBody)

\* Toon._request, lines 81-113, for client state `self`: the un-awaited
\* activate_agreement of line 82 makes a coroutine that never runs; the
\* headers are built, the session is made if there is none, and the attempt
\* is handed to the session.  A closed session raises a RuntimeError, which
\* neither decorator catches: it ends the operation.
SendAttempt(t, self, returned) ==
    LET c == task[t].client
        ens == EnsureSession(self, sessions)
        request == [task[t].request EXCEPT !.headers = Headers(ens.toon, task[t].request)]
    IN  /\ sessions' = ens.sessions
        /\ IF ens.sessions[ens.toon._session.v].closed
           THEN LET e == ResumeCall(ens.toon, shared, task[t].call, request,
                                    SessionClosedError, PyDatetime(now))
                IN  /\ toon' = [toon EXCEPT ![c] = e.toon]
                    /\ shared' = e.records
                    /\ task' = [task EXCEPT ![t].pc = "done",
                                            ![t].request = request,
                                            ![t].returned = returned,
                                            ![t].result = e.result,
                                            ![t].completed =
                                                Append(@, Completed(request, "raise"))]
           ELSE /\ toon' = [toon EXCEPT ![c] = ens.toon]
                /\ shared' = shared
                /\ task' = [task EXCEPT ![t].pc = "wait",
                                        ![t].request = request,
                                        ![t].returned = returned]

\* An attempt of a client without a token_refresh_method, lines 78-113.
Send(t) ==
    /\ task[t].pc = "send"
    /\ ~toon[task[t].client].token_refresh_method
    /\ SendAttempt(t, toon[task[t].client], Unset)
    /\ UNCHANGED <<rq, rec, now>>

\* Lines 78-79: an attempt of a client with a token_refresh_method calls it
\* and waits for what it returns.
Refresh(t) ==
    /\ task[t].pc = "send"
    /\ toon[task[t].client].token_refresh_method
    /\ task' = [task EXCEPT ![t].pc = "refresh", ![t].invoked = @ + 1]
    /\ UNCHANGED <<rq, rec, now, toon, shared, sessions>>

\* Lines 79-113: the callback has returned a token; the attempt goes on with
\* it to the point where it is sent.
RefreshReturn(t, token) ==
    /\ task[t].pc = "refresh"
    /\ LET self == toon[task[t].client] IN
         SendAttempt(t, [self EXCEPT !.token = RefreshedToken(self, token)], token)
    /\ UNCHANGED <<rq, rec, now>>

\* Toon._request, lines 114-144, and the decorators: the attempt ends; either
\* another attempt follows, or the operation resumes and runs to its next
\* call of self._request or to its end.
Receive(t, outcome) ==
    /\ task[t].pc = "wait"
    /\ LET c == task[t].client
             after == AfterAttempt(task[t].retry, AttemptResult(outcome))
             e == ResumeCall(toon[c], shared, task[t].call, task[t].request,
                             after.result, PyDatetime(now))
             completed == Append(task[t].completed,
                                 Completed(task[t].request, after.result.kind))
         IN  IF after.result.kind = "pending"
             THEN /\ task' = [task EXCEPT ![t].pc = "send", ![t].retry = after.retry,
                                          ![t].invoked = 0, ![t].returned = Unset]
                  /\ UNCHANGED <<toon, shared>>
             ELSE /\ task' = [task EXCEPT
                        ![t].pc = IF e.ended THEN "done" ELSE "send",
                        ![t].retry = IF e.ended THEN after.retry ELSE NewRetry,
                        ![t].request = IF e.ended THEN @ ELSE e.request,
                        ![t].calls = IF e.ended THEN @ ELSE @ + 1,
                        ![t].invoked = 0, ![t].returned = Unset,
                        ![t].response = outcome,
                        ![t].result = e.result,
                        ![t].completed = completed]
                  /\ toon' = [toon EXCEPT ![c] = e.toon]
                  /\ shared' = e.records
    /\ UNCHANGED <<rq, rec, now, sessions>>

\* The caller has its result.
Finish(t) ==
    /\ task[t].pc = "done"
    /\ task' = [task EXCEPT ![t] = TaskIdle]
    /\ UNCHANGED <<rq, rec, now, toon, shared, sessions>>

(***************************************************************************)
(* The specifications.                                                     *)
(***************************************************************************)
InitRequest ==
    /\ rq = RqIdle
    /\ rec = RecInit("ThermostatInfo")
    /\ now = 0
    /\ toon = [c \in Clients |-> Toon(SessionRef(1), FALSE, Token0)]
    /\ shared = StatusClassAttributes
    /\ task = [t \in Tasks |-> TaskIdle]
    /\ sessions = <<ClientSession("caller")>>

NextRequest == RqCall \/ RqAttempt \/ RqDone

SpecRequest == InitRequest /\ [][NextRequest]_vars

\* Every attempt ends (the transport call runs under a timeout) and every
\* backoff wait is finite, so an operation that can attempt does attempt.
SpecRequestFair == SpecRequest /\ WF_vars(RqAttempt)

InitRecord ==
    /\ rq = RqIdle
    /\ \E kind \in RecordKinds : rec = RecInit(kind)
    /\ now = 0
    /\ toon = [c \in Clients |-> Toon(SessionRef(1), FALSE, Token0)]
    /\ shared = StatusClassAttributes
    /\ task = [t \in Tasks |-> TaskIdle]
    /\ sessions = <<ClientSession("caller")>>

NextRecord == RecUpdate \/ Tick

SpecRecord == InitRecord /\ [][NextRecord]_vars

InitStatus ==
    /\ rq = RqIdle
    /\ rec = StatusInit
    /\ now = 0
    /\ toon = [c \in Clients |-> Toon(SessionRef(1), FALSE, Token0)]
    /\ shared = StatusClassAttributes
    /\ task = [t \in Tasks |-> TaskIdle]
    /\ sessions = <<ClientSession("caller")>>

NextStatus == StatusUpdate \/ Tick

SpecStatus == InitStatus /\ [][NextStatus]_vars

\* The clients are made after the module was imported, each with the
\* caller's session and without a token_refresh_method.
Init ==
    /\ rq = RqIdle
    /\ rec = RecInit("ThermostatInfo")
    /\ now = 1
    /\ toon = [c \in Clients |-> Toon(SessionRef(1), FALSE, Token0)]
    /\ shared = StatusClassAttributes
    /\ task = [t \in Tasks |-> TaskIdle]
    /\ sessions = <<ClientSession("caller")>>

\* Spec: client c1 alone, with every operation and every outcome.
Next ==
    \E t \in Tasks :
        \/ \E call \in FacadeCalls : Begin(t, "c1", call, Snapshot)
        \/ Send(t)
        \/ \E outcome \in ServerOutcomes(task[t].request) : Receive(t, outcome)
        \/ Finish(t)

Spec == Init /\ [][Next]_vars

\* SpecClients: two clients side by side.
NextClients ==
    \E t \in Tasks :
        \/ \E c \in Clients, call \in ClientsCalls : Begin(t, c, call, Snapshot)
        \/ Send(t)
        \/ \E outcome \in ClientsOutcomes(task[t].request) : Receive(t, outcome)
        \/ Finish(t)

SpecClients == Init /\ [][NextClients]_vars

(***************************************************************************)
(* SpecConcurrent: client c1 with two callers, whose operations are in     *)
(* flight at once.  The client is made with or without a session of the    *)
(* caller's and with or without a token_refresh_method.                    *)
(***************************************************************************)
Callers == {"t1", "t2"}

App1 == PyStr(31)
Url1 == PyStr(41)

ConcurrentCalls ==
    {[NoCall EXCEPT !.name = "activate_agreement", !.agreement_id = A1],
     [NoCall EXCEPT !.name = "subscribe_webhook", !.application_id = App1, !.url = Url1],
     [NoCall EXCEPT !.name = "unsubscribe_webhook", !.application_id = App1],
     [NoCall EXCEPT !.name = "close"]}

ConcurrentOutcomes(request) ==
    {Timeout, Response(404, CT_JSON, PyStr(1))}
        \cup CASE request.endpoint = "agreements" ->
                    {Response(200, CT_JSON, <<WireAgreement1, WireAgreement2>>)}
               [] request.method = "POST" -> {Response(200, CT_JSON, PyStr(2))}
               [] OTHER -> {Response(204, CT_MISSING, None)}

InitConcurrent ==
    /\ rq = RqIdle
    /\ rec = RecInit("ThermostatInfo")
    /\ now = 1
    /\ shared = StatusClassAttributes
    /\ task = [t \in Callers |-> TaskIdle]
    /\ \E injected \in BOOLEAN, token_refresh_method \in BOOLEAN :
         /\ sessions = IF injected THEN <<ClientSession("caller")>> ELSE <<>>
         /\ toon = [c \in {"c1"} |->
                        Toon(IF injected THEN SessionRef(1) ELSE None,
                             token_refresh_method, Token0)]

NextConcurrent ==
    \E t \in Callers :
        \/ \E call \in ConcurrentCalls : Begin(t, "c1", call, NoSnapshot)
        \/ Send(t)
        \/ Refresh(t)
        \/ \E token \in RefreshedTokens : RefreshReturn(t, token)
        \/ \E outcome \in ConcurrentOutcomes(task[t].request) : Receive(t, outcome)
        \/ Finish(t)

SpecConcurrent == InitConcurrent /\ [][NextConcurrent]_vars

(***************************************************************************)
(* SpecRace: client c1 with two callers whose status operations and        *)
(* activations are in flight at once.  The client has a                    *)
(* token_refresh_method, so every attempt starts with a suspension (line   *)
(* 79); the other suspensions are the wait for the transport and the wait  *)
(* of a decorator before another attempt.  The agreements are known after  *)
(* the first fetch, so a later activation runs without a suspension.       *)
(***************************************************************************)
RacePayload1 ==
    [thermostatInfo |-> [currentSetpoint |-> PyInt(1800), programState |-> PyInt(1)],
     powerUsage |-> [value |-> PyInt(200), valueSolar |-> PyInt(50)]]
RacePayload2 ==
    [thermostatInfo |-> [currentSetpoint |-> PyInt(1900), programState |-> PyInt(0)],
     powerUsage |-> [value |-> PyInt(300), valueSolar |-> PyInt(70)]]
RacePayloads == {RacePayload1, RacePayload2}

RaceCalls ==
    {[NoCall EXCEPT !.name = "activate_agreement", !.agreement_id = A1],
     [NoCall EXCEPT !.name = "activate_agreement", !.display_common_name = Cabin],
     [NoCall EXCEPT !.name = "update"]}

RaceOutcomes(request) ==
    {Timeout}
        \cup CASE request.endpoint = "agreements" ->
                    {Response(200, CT_JSON, <<WireAgreement1, WireAgreement2>>)}
               [] request.endpoint = "status" ->
                    {Response(200, CT_JSON_UTF8, d) : d \in RacePayloads}
               [] OTHER -> {Response(204, CT_MISSING, None)}

RaceTokens == {PyStr(21)}

\* What an operation of caller t keeps of its beginning: the other callers
\* whose update() was in flight.
Overlap(t) ==
    [toon |-> <<>>, shared |-> <<>>,
     overlaps |-> {u \in Callers \ {t} :
                      task[u].pc \notin {"idle", "done"} /\ task[u].call.name = "update"}]

InitRace ==
    /\ rq = RqIdle
    /\ rec = RecInit("ThermostatInfo")
    /\ now = 1
    /\ toon = [c \in {"c1"} |-> Toon(SessionRef(1), TRUE, Token0)]
    /\ shared = StatusClassAttributes
    /\ task = [t \in Callers |-> TaskIdle]
    /\ sessions = <<ClientSession("caller")>>

NextRace ==
    \E t \in Callers :
        \/ \E call \in RaceCalls : Begin(t, "c1", call, Overlap(t))
        \/ Refresh(t)
        \/ \E token \in RaceTokens : RefreshReturn(t, token)
        \/ \E outcome \in RaceOutcomes(task[t].request) : Receive(t, outcome)
        \/ Finish(t)

\* The event loop runs whatever is ready: a caller that can take a step is
\* not held back forever.
SpecRace == InitRace /\ [][NextRace]_vars /\ WF_vars(NextRace)

(***************************************************************************)
(* Properties of Toon._request (SpecRequest).                              *)
(***************************************************************************)

\* C1: when every attempt of one request operation is answered with HTTP 429,
\* the operation makes at most 6 attempts in total and then raises a
\* ToonRateLimitError.
C1_RateLimitSixAttempts ==
    (rq.attempts >= 1 /\ rq.all429) =>
        /\ rq.attempts <= 6
        /\ rq.pc = "done" =>
             (rq.result.kind = "raise" /\ rq.result.cls = "ToonRateLimitError")

\* C2: when every attempt of one request operation fails in the transport
\* (timeout or client error), the operation makes at most 3 attempts and then
\* raises to the caller the exception of the failing attempt: a timeout error
\* for a timeout, a plain connection error for a client error.
C2_ConnectivityThreeAttempts ==
    (rq.attempts >= 1 /\ rq.allConn) =>
        /\ rq.attempts <= 3
        /\ rq.pc = "done" <=> rq.attempts = 3
        /\ rq.pc = "done" =>
             /\ rq.result.kind = "raise"
             /\ rq.outcome.io = "timeout" =>
                    rq.result.cls = "ToonConnectionTimeoutError"
             /\ rq.outcome.io = "client_error" =>
                    rq.result.cls = "ToonConnectionError"

\* A third timeout in a row has ended the operation with a timeout error.
C2_Witness ==
    /\ rq.pc = "done" /\ rq.allConn /\ rq.attempts = 3
    /\ rq.outcome.io = "timeout"
    /\ rq.result.cls = "ToonConnectionTimeoutError"

\* C3: the classification of the response of one attempt.  A status in
\* 400..599 yields no value: 429 raises a rate-limit error, any other raises a
\* ToonError carrying the status and the body.  Status 204 returns nothing.
\* Any other status returns the parsed JSON when the content type is JSON and
\* the raw text otherwise.
C3_ResponseClassification ==
    (rq.attempts >= 1 /\ rq.outcome.io = "response") =>
        LET status == rq.outcome.status
            isJson == rq.outcome.ctype \in {CT_JSON, CT_JSON_UTF8}
            failure == status >= 400 /\ status <= 599
        IN  /\ failure => rq.res.kind = "raise"
            /\ status = 429 => rq.res.cls = "ToonRateLimitError"
            /\ (failure /\ status # 429) =>
                   /\ rq.res.cls = "ToonError"
                   /\ rq.res.value.status = status
                   /\ rq.res.value.body = rq.outcome.body
            /\ status = 204 => rq.res = Return(NoBody)
            /\ (~failure /\ status # 204) =>
                   /\ rq.res.kind = "return"
                   /\ rq.res.value.body = rq.outcome.body
                   /\ rq.res.value.tag = IF isJson THEN "json" ELSE "text"

\* A response with status 599 has raised a ToonError carrying 599.
C3_Witness ==
    /\ rq.attempts >= 1 /\ rq.outcome.io = "response" /\ rq.outcome.status = 599
    /\ rq.res.cls = "ToonError" /\ rq.res.value.status = 599

(***************************************************************************)
(* Properties of the records (SpecRecord).                                 *)
(***************************************************************************)

\* C4: partial-update preservation.  For each record and every mapped field
\* F with wire key K, an update whose payload omits K or carries K = null
\* leaves F as it was before the update, and a payload with a non-null K sets
\* F to the conversion of that value.
C4_PartialUpdatePreservation ==
    rec.n >= 1 =>
        \A i \in 1..Len(Assignments(rec.kind)) :
            LET F == Assignments(rec.kind)[i][1]
                K == Assignments(rec.kind)[i][2]
                conversion == Assignments(rec.kind)[i][4]
            IN  IF K \notin DOMAIN rec.data \/ rec.data[K] = None
                THEN rec.cur[F] = rec.prev[F]
                ELSE rec.cur[F] = IF conversion = "" THEN rec.data[K]
                                  ELSE Convert(conversion, rec.data[K])

(***************************************************************************)
(* Properties of the client facade (Spec, SpecClients).                    *)
(***************************************************************************)
\* Every field a record's update_from_dict assigns from the payload is None.
AllUnknown(kind, record) ==
    \A i \in 1..Len(Assignments(kind)) : record[Assignments(kind)[i][1]] = None

\* C5: after activate_agreement succeeds, the client's Status is a fresh one:
\* it is bound to the matched agreement, and every thermostat, power, gas and
\* water field read through it is unknown.
C5_FreshStatusOnActivation ==
    \A t \in Tasks :
        (/\ task[t].pc = "done"
         /\ task[t].call.name = "activate_agreement"
         /\ task[t].result.kind = "return") =>
            /\ toon[task[t].client]._status = Status(task[t].result.value.body)
            /\ AllUnknown("ThermostatInfo", shared.thermostat)
            /\ AllUnknown("PowerUsage", shared.power_usage)
            /\ AllUnknown("GasUsage", shared.gas_usage)
            /\ AllUnknown("WaterUsage", shared.water_usage)

\* C6: two clients share no mutable state: an operation of one client leaves
\* the Status of the other client, and the records read through it, as they
\* were.
C6_ClientsIndependent ==
    \A t \in Tasks :
        task[t].pc = "done" =>
            \A other \in Clients \ {task[t].client} :
                /\ toon[other] = task[t].pre.toon[other]
                /\ HasStatus(toon[other]) => shared = task[t].pre.shared

StatusOperations == {"update", "set_current_setpoint", "set_active_state"}

\* C8: update, set_current_setpoint and set_active_state called while the
\* client has no Status end with an AssertionError and make no request; a
\* client that has a Status keeps having one, and its update() then ends
\* with no AssertionError, after one request when no data was passed.
C8_RequiresActive ==
    /\ [](\A t \in Tasks :
            (task[t].pc # "idle" /\ task[t].call.name \in StatusOperations) =>
                LET before == task[t].pre.toon[task[t].client] IN
                /\ ~HasStatus(before) =>
                      /\ task[t].pc = "done"
                      /\ task[t].result = AssertionError
                      /\ task[t].calls = 0
                /\ (HasStatus(before) /\ task[t].call.name = "update") =>
                      /\ task[t].result.cls # "AssertionError"
                      /\ task[t].calls = IF task[t].call.data = None THEN 1 ELSE 0)
    /\ [][\A c \in Clients : HasStatus(toon[c]) => HasStatus(toon'[c])]_vars

\* An update() of an activated client has returned its Status after an
\* activation that failed in between.
C8_Witness ==
    \E t \in Tasks :
        /\ task[t].pc = "done" /\ task[t].call.name = "update"
        /\ task[t].call.data = None
        /\ HasStatus(task[t].pre.toon[task[t].client])
        /\ task[t].result.kind = "return"
        /\ task[t].result.value.body = toon[task[t].client]._status

\* C9: set_current_setpoint(t) of a client with a Status makes one PUT
\* request to the thermostat endpoint whose body has currentSetpoint =
\* round(100 * t), programState and activeState, and makes no status GET;
\* while the request is pending or when it has failed the records are as
\* they were; when it has succeeded the thermostat's current_setpoint is
\* round(100 * t) / 100 and its program_state the programState sent.
C9_Setpoint ==
    \A t \in Tasks :
        (/\ task[t].pc # "idle"
         /\ task[t].call.name = "set_current_setpoint"
         /\ HasStatus(task[t].pre.toon[task[t].client])) =>
            LET request == task[t].request
                sent == request.data.currentSetpoint
                \* 100 * t - sent, in thousandths
                error == task[t].call.temperature.v * 100 - sent.v * 1000
            IN  /\ task[t].calls = 1
                /\ request.method = "PUT" /\ request.endpoint = "thermostat"
                /\ DOMAIN request.data = {"currentSetpoint", "programState", "activeState"}
                /\ sent.t = "int" /\ error >= -500 /\ error <= 500
                /\ (task[t].pc # "done" \/ task[t].result.kind = "raise") =>
                      shared = task[t].pre.shared
                /\ (task[t].pc = "done" /\ task[t].result.kind = "return") =>
                      /\ shared.thermostat.current_setpoint = PyFloat(sent.v * 10)
                      /\ shared.thermostat.program_state = request.data.programState

\* set_current_setpoint(21.567) has succeeded after a retried attempt: 2157
\* was sent and the record holds 21.57.
C9_Witness ==
    \E t \in Tasks :
        /\ task[t].pc = "done" /\ task[t].call.name = "set_current_setpoint"
        /\ task[t].call.temperature = PyFloat(21567)
        /\ task[t].retry.outer = 2
        /\ task[t].result.kind = "return"
        /\ task[t].request.data.currentSetpoint = PyInt(2157)
        /\ shared.thermostat.current_setpoint = PyFloat(21570)

\* C10: agreements(force_update) makes the agreements GET if and only if no
\* list is cached or force_update is true, and otherwise returns the cached
\* list; a fetch that succeeded replaces the cache with the fetched list, an
\* empty list too, and a fetch that failed raises the failure and leaves the
\* cache as it was.
C10_AgreementsCache ==
    \A t \in Tasks :
        (task[t].pc # "idle" /\ task[t].call.name = "agreements") =>
            LET self == toon[task[t].client]
                before == task[t].pre.toon[task[t].client]
                fetched == task[t].response.body
            IN  /\ task[t].calls =
                      IF before._agreements.t = "none" \/ task[t].call.force_update
                      THEN 1 ELSE 0
                /\ task[t].calls = 1 =>
                      /\ task[t].request.method = "GET"
                      /\ task[t].request.endpoint = "agreements"
                /\ task[t].calls = 0 =>
                      /\ task[t].pc = "done"
                      /\ task[t].result = ReturnList(before._agreements.items)
                /\ (task[t].pc # "done" \/ task[t].calls = 0
                        \/ task[t].result.kind = "raise") =>
                      self._agreements = before._agreements
                /\ (task[t].pc = "done" /\ task[t].result.kind = "raise") =>
                      IsInstance(task[t].result.cls, "ToonError")
                /\ (task[t].pc = "done" /\ task[t].calls = 1
                        /\ task[t].result.kind = "return") =>
                      /\ self._agreements.t = "list"
                      /\ Len(self._agreements.items) = Len(fetched)
                      /\ \A i \in 1..Len(fetched) :
                            /\ self._agreements.items[i].agreement_id =
                                   fetched[i].agreementId
                            /\ self._agreements.items[i].display_common_name =
                                   Get(fetched[i], "displayCommonName")
                      /\ task[t].result = ReturnList(self._agreements.items)

\* agreements(force_update=True) has replaced a cached list of two by the
\* empty list it fetched.
C10_Witness ==
    \E t \in Tasks :
        /\ task[t].pc = "done" /\ task[t].call.name = "agreements"
        /\ task[t].call.force_update
        /\ Len(task[t].pre.toon[task[t].client]._agreements.items) = 2
        /\ task[t].result.kind = "return"
        /\ toon[task[t].client]._agreements = List(<<>>)

(***************************************************************************)
(* Properties of the request layer under concurrent callers                *)
(* (SpecConcurrent) and of the headers (Spec).                             *)
(***************************************************************************)

\* C11: when a token_refresh_method is configured, every attempt that is
\* sent, retries included, was preceded by one call of the callback made by
\* that attempt, and its Authorization header carries the token that call
\* returned, also while another operation of the client is in flight.
C11_TokenRefreshedPerAttempt ==
    \A t \in Callers :
        (task[t].pc = "wait" /\ toon[task[t].client].token_refresh_method) =>
            /\ task[t].invoked = 1
            /\ task[t].returned \in RefreshedTokens
            /\ task[t].request.headers.authorization = task[t].returned

\* Two operations wait for the transport at once, sent with different
\* tokens, one of them on a retry attempt.
C11_Witness ==
    /\ toon["c1"].token_refresh_method
    /\ task["t1"].pc = "wait" /\ task["t2"].pc = "wait"
    /\ task["t1"].retry.outer > 1
    /\ task["t1"].request.headers.authorization
           # task["t2"].request.headers.authorization
    /\ toon["c1"].token # task["t1"].request.headers.authorization

\* C12: an attempt carries the X-Common-Name and X-Agreement-ID headers if
\* and only if the client has a Status and the request is not the exempt
\* agreements fetch; their values are the display name and the id of the
\* agreement of that Status; the agreements fetch never carries them.
C12_AgreementHeaders ==
    \A t \in Tasks :
        task[t].pc = "wait" =>
            LET self == toon[task[t].client]
                headers == task[t].request.headers
                carries == headers.common_name # Unset \/ headers.agreement_id # Unset
            IN  /\ carries <=> (HasStatus(self) /\ task[t].request.endpoint # "agreements")
                /\ carries =>
                      /\ headers.common_name = self._status.agreement.display_common_name
                      /\ headers.agreement_id = self._status.agreement.agreement_id
                /\ task[t].call.name = "agreements" => ~carries

\* A status fetch is in flight with the headers of the second agreement.
C12_Witness ==
    \E t \in Tasks :
        /\ task[t].pc = "wait"
        /\ task[t].request.endpoint = "status"
        /\ task[t].request.headers.agreement_id = A2
        /\ task[t].request.headers.common_name = Cabin

\* The sessions the client made itself.
OwnSessions == {i \in DOMAIN sessions : sessions[i].creator = "Toon"}

\* C13: over every interleaving the client makes at most one session, and
\* none when one was passed to the constructor; a session of the caller's is
\* never closed; and a call of close() closes exactly the session the client
\* made itself, if there is one.
C13_SessionOwnership ==
    /\ [](/\ Cardinality(OwnSessions) <= 1
          /\ (\E i \in DOMAIN sessions : sessions[i].creator = "caller") =>
                OwnSessions = {}
          /\ \A i \in DOMAIN sessions :
                sessions[i].creator = "caller" => ~sessions[i].closed)
    /\ [][\A t \in Callers :
            (task[t].pc = "idle" /\ task'[t].pc = "done"
                /\ task'[t].call.name = "close") =>
                /\ Len(sessions') = Len(sessions)
                /\ \A i \in DOMAIN sessions :
                      sessions'[i].closed =
                          (sessions[i].closed \/ sessions[i].creator = "Toon")]_vars

\* close() has returned and the session the client made is closed, while the
\* other caller's operation has been refused by the closed session.
C13_Witness ==
    /\ task["t1"].pc = "done" /\ task["t1"].call.name = "close"
    /\ OwnSessions # {}
    /\ \A i \in OwnSessions : sessions[i].closed
    /\ task["t2"].pc = "done" /\ task["t2"].result = SessionClosedError

\* C14: in subscribe_webhook the POST exists only after the DELETE of the
\* webhooks of the same application id has returned; it is the second
\* request of the operation and carries the application id, the callback
\* url and the four subscribed actions.
C14_UnsubscribeBeforeSubscribe ==
    \A t \in Callers :
        (task[t].call.name = "subscribe_webhook" /\ task[t].calls >= 1) =>
            IF task[t].request.method = "POST"
            THEN /\ task[t].calls = 2
                 /\ Len(task[t].completed) >= 1
                 /\ task[t].completed[1] =
                        [method |-> "DELETE", endpoint |-> "webhooks/application_id",
                         uri_application_id |-> task[t].call.application_id,
                         kind |-> "return"]
                 /\ task[t].request.endpoint = "webhooks"
                 /\ task[t].request.data =
                        [applicationId |-> task[t].call.application_id,
                         callbackUrl |-> task[t].call.url,
                         subscribedActions |->
                             <<"BoilerErrorInfo", "GasUsage", "PowerUsage", "Thermostat">>]
            ELSE /\ task[t].calls = 1
                 /\ task[t].request.method = "DELETE"
                 /\ task[t].request.uri_application_id = task[t].call.application_id

\* The POST of subscribe_webhook is in flight.
C14_Witness ==
    \E t \in Callers :
        /\ task[t].call.name = "subscribe_webhook"
        /\ task[t].pc = "wait"
        /\ task[t].request.method = "POST"

\* C15: unsubscribe_webhook tolerates the registration not existing: when
\* its DELETE is answered with 404 the operation returns instead of raising,
\* and subscribe_webhook goes on to register the webhook.
C15_UnsubscribeToleratesNotFound ==
    \A t \in Callers :
        (/\ task[t].call.name \in {"unsubscribe_webhook", "subscribe_webhook"}
         /\ Len(task[t].completed) >= 1
         /\ task[t].completed[1].method = "DELETE"
         /\ task[t].calls = 1
         /\ task[t].pc = "done"
         /\ task[t].response.io = "response"
         /\ task[t].response.status = 404) =>
            /\ task[t].result.kind = "return"
            /\ task[t].call.name # "subscribe_webhook"

(***************************************************************************)
(* Properties of the records and of Status (SpecRecord, SpecStatus).       *)
(***************************************************************************)

\* C16: every call of a record's update_from_dict sets that record's
\* last_updated to the current time, also when the payload changed no field.
C16_LastUpdatedSetByUpdate ==
    [][rec'.n = rec.n + 1 => rec'.cur.last_updated = PyDatetime(now)]_vars

\* The fields a record's update_from_dict assigns from the payload are the
\* same in two records of a kind.
SameDataFields(kind, one, other) ==
    \A i \in 1..Len(Assignments(kind)) :
        one[Assignments(kind)[i][1]] = other[Assignments(kind)[i][1]]

\* C17: update-merge idempotence: applying to a fresh record the payload
\* that was applied to it once leaves every data field as the first
\* application set it.
C17_UpdateIdempotent ==
    [][(rec.n = 1 /\ rec'.n = 2 /\ rec'.data = rec.data) =>
            SameDataFields(rec.kind, rec'.cur, rec.cur)]_vars

\* A payload that sets a field has been applied twice to a fresh record.
C17_Witness ==
    /\ rec.n = 2
    /\ rec.kind \in RecordKinds
    /\ SameDataFields(rec.kind, rec.prev,
                      update_from_dict(rec.kind, FreshRecord(rec.kind), rec.data,
                                       PyDatetime(0)))
    /\ ~SameDataFields(rec.kind, rec.prev, FreshRecord(rec.kind))
    /\ rec.cur.last_updated # rec.prev.last_updated

\* A derived property is None or of the type given.
NoneOr(type, x) == x = None \/ x.t = type

\* C18: unknown propagation: each derived property of PowerUsage and of
\* ThermostatInfo is unknown exactly when a field it is computed from is
\* unknown, and is a number or a boolean otherwise.
C18_UnknownPropagation ==
    LET r == rec.cur IN
    /\ rec.kind = "ThermostatInfo" =>
          /\ burner(r) = None <=> r.burner_state = None
          /\ hot_tapwater(r) = None <=> r.burner_state = None
          /\ heating(r) = None <=> r.burner_state = None
          /\ pre_heating(r) = None <=> r.burner_state = None
          /\ program(r) = None <=> r.program_state = None
          /\ program_overridden(r) = None <=> r.program_state = None
          /\ \A x \in {burner(r), hot_tapwater(r), heating(r), pre_heating(r),
                       program(r), program_overridden(r)} : NoneOr("bool", x)
    /\ rec.kind = "PowerUsage" =>
          /\ day_usage(r) = None <=>
                (r.day_high_usage = None \/ r.day_low_usage = None)
          /\ day_to_grid_usage(r) = None <=>
                (r.day_high_usage = None \/ r.day_low_usage = None
                    \/ r.day_produced_solar = None)
          /\ day_from_grid_usage(r) = None <=>
                (r.day_high_usage = None \/ r.day_low_usage = None
                    \/ r.day_produced_solar = None)
          /\ current_covered_by_solar(r) = None <=>
                (r.current = None \/ r.current_solar = None)
          /\ \A x \in {day_usage(r), day_to_grid_usage(r), day_from_grid_usage(r)} :
                NoneOr("float", x)
          /\ NoneOr("int", current_covered_by_solar(r))

\* Both tariffs are known and the solar production is not: day_usage is a
\* number while the grid figures are unknown.
C18_Witness ==
    /\ rec.kind = "PowerUsage"
    /\ rec.cur.day_high_usage # None /\ rec.cur.day_low_usage # None
    /\ rec.cur.day_produced_solar = None
    /\ day_usage(rec.cur) # None
    /\ day_to_grid_usage(rec.cur) = None

Abs(x) == IF x < 0 THEN -x ELSE x

\* C19: for known current and current_solar, current_covered_by_solar is an
\* int: 0 when current = 0, and otherwise the percentage
\* current_solar / current * 100 rounded to a nearest int and capped at 100
\* (current = 200 and solar = 50 give 25, a solar above current gives 100).
C19_CoveredBySolar ==
    (rec.kind = "PowerUsage" /\ rec.cur.current # None /\ rec.cur.current_solar # None) =>
        LET current == rec.cur.current.v
            solar == rec.cur.current_solar.v
            covered == current_covered_by_solar(rec.cur)
        IN  /\ covered.t = "int"
            /\ current = 0 => covered.v = 0
            /\ current # 0 =>
                  /\ covered.v <= 100
                  /\ covered.v < 100 =>
                        2 * Abs(covered.v * current - 100 * solar) <= Abs(current)
                  /\ covered.v = 100 =>
                        200 * solar * (IF current > 0 THEN 1 ELSE -1)
                            >= 199 * Abs(current)
            /\ (current = 200 /\ solar = 50) => covered.v = 25
            /\ (current > 0 /\ solar > current) => covered.v = 100

\* current = 200 and current_solar = 50: a quarter is covered.
C19_Witness ==
    /\ rec.kind = "PowerUsage"
    /\ rec.cur.current = PyInt(200) /\ rec.cur.current_solar = PyInt(50)
    /\ current_covered_by_solar(rec.cur) = PyInt(25)

\* C20: Status.update_from_dict never raises for payloads whose keys are
\* missing, null or unrecognized; it leaves unchanged every record whose
\* section is absent and updates the record of a section that is present;
\* and it leaves server_time and last_updated_from_display unchanged when
\* their key is absent or null.
C20_StatusUpdateContract ==
    (rec.kind = "Status" /\ rec.n >= 1) =>
        /\ ~rec.raised
        /\ \A section \in {<<"thermostatInfo", "thermostat", "ThermostatInfo">>,
                           <<"powerUsage", "power_usage", "PowerUsage">>,
                           <<"gasUsage", "gas_usage", "GasUsage">>,
                           <<"waterUsage", "water_usage", "WaterUsage">>} :
              IF section[1] \notin DOMAIN rec.data
              THEN rec.cur.records[section[2]] = rec.prev.records[section[2]]
              ELSE SameDataFields(section[3], rec.cur.records[section[2]],
                                  update_from_dict(section[3],
                                                   rec.prev.records[section[2]],
                                                   rec.data[section[1]],
                                                   PyDatetime(0)))
        /\ \A timestamp \in {<<"lastUpdateFromDisplay", "last_updated_from_display">>,
                             <<"serverTime", "server_time">>} :
              IF timestamp[1] \notin DOMAIN rec.data \/ rec.data[timestamp[1]] = None
              THEN rec.cur.self[timestamp[2]] = rec.prev.self[timestamp[2]]
              ELSE rec.cur.self[timestamp[2]] = convert_datetime(rec.data[timestamp[1]])

(***************************************************************************)
(* Properties of the retry policies of Toon._request.                      *)
(***************************************************************************)

\* C22: whatever the outcomes of its attempts (success, 429, transport
\* error, timeout, other HTTP error), one request operation ends with a value
\* or an error after at most 18 attempts: a run of the inner rate-limit
\* policy makes at most 6 attempts and the outer connectivity policy starts
\* the inner one at most 3 times.
C22_TerminatesWithinEighteen ==
    /\ [](/\ rq.attempts <= OUTER_MAX_TRIES * INNER_MAX_TRIES
          /\ rq.retry.inner <= INNER_MAX_TRIES
          /\ rq.retry.outer <= OUTER_MAX_TRIES
          /\ rq.attempts <= (rq.retry.outer - 1) * INNER_MAX_TRIES + rq.retry.inner
          /\ rq.pc = "done" => rq.result.kind \in {"return", "raise"})
    /\ (rq.pc = "attempt") ~> (rq.pc = "done")

\* Eighteen attempts, each answered with 429, have ended the operation in
\* the sixth attempt of the third run.
C22_Witness ==
    /\ rq.pc = "done" /\ rq.attempts = 18
    /\ rq.retry = [outer |-> 3, inner |-> 6]
    /\ rq.result.kind = "raise"

\* C23: a response with a status in 400..599 other than 429 ends the request
\* operation at that attempt: neither policy retries it, the ToonError of
\* that attempt is raised to the caller and no further attempt is sent.
C23_OtherErrorNotRetried ==
    (/\ rq.attempts >= 1 /\ rq.outcome.io = "response"
     /\ rq.outcome.status >= 400 /\ rq.outcome.status <= 599
     /\ rq.outcome.status # 429) =>
        /\ rq.pc = "done"
        /\ rq.result = rq.res
        /\ rq.result.kind = "raise" /\ rq.result.cls = "ToonError"
        /\ rq.result.value.status = rq.outcome.status

\* After a 429 and a timeout, a 503 has ended the operation at the third
\* attempt, in the first try of the second run.
C23_Witness ==
    /\ rq.pc = "done" /\ rq.attempts = 3 /\ ~rq.all429 /\ ~rq.allConn
    /\ rq.retry = [outer |-> 2, inner |-> 1]
    /\ rq.outcome.io = "response" /\ rq.outcome.status = 503
    /\ rq.result.cls = "ToonError"

(***************************************************************************)
(* Properties of Toon.activate_agreement (Spec).                           *)
(***************************************************************************)

\* C26: activation selects the requested agreement.  Whatever the list
\* (entries may lack an id or a display name): activate_agreement called
\* with only agreement_id = X that returns has returned and activated an
\* agreement whose agreement_id is X; called with only display_common_name
\* = N, one whose display name is N; and when no entry of a list that is
\* not empty has the requested id or name, the call ends with 'agreement
\* not found' and activates no other entry.
C26_ActivationSelectsRequested ==
    \A t \in Tasks :
        LET self == toon[task[t].client]
            before == task[t].pre.toon[task[t].client]
            call == task[t].call
            known == self._agreements.items
            byId == call.agreement_id # None /\ call.display_common_name = None
                        /\ call.agreement = None
            byName == call.display_common_name # None /\ call.agreement_id = None
                        /\ call.agreement = None
            returned == task[t].result.value.body
        IN  (task[t].pc = "done" /\ call.name = "activate_agreement") =>
                /\ (byId /\ task[t].result.kind = "return") =>
                      /\ returned.agreement_id = call.agreement_id
                      /\ self.agreement_id = call.agreement_id
                      /\ self._status.agreement.agreement_id = call.agreement_id
                /\ (byName /\ task[t].result.kind = "return") =>
                      /\ returned.display_common_name = call.display_common_name
                      /\ self.display_common_name = call.display_common_name
                /\ (/\ self._agreements.t = "list" /\ Len(known) > 0
                    /\ \/ byId /\ \A i \in 1..Len(known) :
                                     known[i].agreement_id # call.agreement_id
                       \/ byName /\ \A i \in 1..Len(known) :
                                     known[i].display_common_name
                                         # call.display_common_name) =>
                      /\ task[t].result = NotFoundError
                      /\ self._status = before._status
                      /\ self.agreement_id = before.agreement_id

\* C25: state is unchanged on error.  A failed activate_agreement (no
\* agreements, agreement not found, or a failed fetch) leaves the active
\* agreement id and the Status as they were; a set_current_setpoint or
\* set_active_state whose PUT has failed after its retries leaves every
\* field of the thermostat record as it was; and a client that had a Status
\* has one after any failed operation.
C25_UnchangedOnError ==
    \A t \in Tasks :
        LET self == toon[task[t].client]
            before == task[t].pre.toon[task[t].client]
            call == task[t].call
        IN  (task[t].pc = "done" /\ task[t].result.kind = "raise") =>
                /\ call.name = "activate_agreement" =>
                      /\ self.agreement_id = before.agreement_id
                      /\ self.display_common_name = before.display_common_name
                      /\ self._status = before._status
                      /\ shared = task[t].pre.shared
                /\ call.name \in {"set_current_setpoint", "set_active_state"} =>
                      /\ shared.thermostat = task[t].pre.shared.thermostat
                      /\ self._status = before._status
                /\ HasStatus(before) =>
                      /\ HasStatus(self)
                      /\ self.agreement_id = before.agreement_id

\* A set_current_setpoint of an active client whose thermostat record holds
\* a setpoint has raised the timeout of the third attempt of its PUT.
C25_Witness ==
    \E t \in Tasks :
        /\ task[t].pc = "done" /\ task[t].call.name = "set_current_setpoint"
        /\ task[t].request.method = "PUT"
        /\ task[t].retry.outer = OUTER_MAX_TRIES
        /\ task[t].result.cls = "ToonConnectionTimeoutError"
        /\ HasStatus(toon[task[t].client])
        /\ shared.thermostat.current_setpoint # None

(***************************************************************************)
(* Properties of concurrent operations on one client (SpecRace).           *)
(***************************************************************************)
\* The sections of a status payload: <<wire key, record, kind>>.
RecordSections ==
    {<<"thermostatInfo", "thermostat", "ThermostatInfo">>,
     <<"powerUsage", "power_usage", "PowerUsage">>,
     <<"gasUsage", "gas_usage", "GasUsage">>,
     <<"waterUsage", "water_usage", "WaterUsage">>}

\* Payload `data` carries assignment `a` of section `s` with a value.
Carries(data, s, a) ==
    /\ s[1] \in DOMAIN data
    /\ a[2] \in DOMAIN data[s[1]]
    /\ data[s[1]][a[2]] # None

\* What assignment `a` makes of the value payload `data` carries for it.
Carried(data, s, a) ==
    IF a[4] = "" THEN data[s[1]][a[2]] ELSE Convert(a[4], data[s[1]][a[2]])

\* A record holds, for two keys that two responses both carry with values
\* of their own, the value of one response in one field and the value of
\* the other response in the other field.
Mixed ==
    \E p \in RacePayloads, q \in RacePayloads, s \in RecordSections :
        \E i \in 1..Len(Assignments(s[3])), j \in 1..Len(Assignments(s[3])) :
            LET a == Assignments(s[3])[i]
                b == Assignments(s[3])[j]
            IN  /\ p # q /\ i # j
                /\ Carries(p, s, a) /\ Carries(q, s, a)
                /\ Carries(p, s, b) /\ Carries(q, s, b)
                /\ Carried(p, s, a) # Carried(q, s, a)
                /\ Carried(p, s, b) # Carried(q, s, b)
                /\ shared[s[2]][a[1]] = Carried(p, s, a)
                /\ shared[s[2]][b[1]] = Carried(q, s, b)

\* C21 as stated: two update() calls running concurrently on one client
\* race on the fields of the same Status, the merge being last-write-wins
\* per field and not atomic across fields: an interleaving leads to a
\* record that holds, for two keys present in both responses, the value of
\* the first response in one field and the value of the second in the other.
C21_MixedFieldsReached == <>Mixed

\* C21, amended: two update() calls running concurrently on one client
\* write the same Status, and each response is merged in one step, all its
\* fields at once.  The merge is last-write-wins per response: when an
\* update() returns, every field whose key its response carries holds the
\* value of that response, and no interleaving leads to a record that
\* holds, for two keys present in both responses, the value of one response
\* in one field and the value of the other response in the other.
C21_MergeAtomicPerResponse ==
    /\ []~Mixed
    /\ [][\A t \in Callers :
            (/\ task[t].pc = "wait" /\ task[t].call.name = "update"
             /\ task'[t].pc = "done" /\ task'[t].result.kind = "return") =>
                \A s \in RecordSections :
                    \A i \in 1..Len(Assignments(s[3])) :
                        LET a == Assignments(s[3])[i] IN
                        Carries(task'[t].response.body, s, a) =>
                            shared'[s[2]][a[1]] =
                                Carried(task'[t].response.body, s, a)]_vars

\* Two update() calls have overlapped: the second began while the first was
\* in flight and merged the second payload, and the first has merged the
\* first payload after it; the thermostat record holds the first payload.
C21_Witness ==
    \E t \in Callers, u \in Callers :
        /\ t # u
        /\ task[t].pc = "done" /\ task[t].call.name = "update"
        /\ task[u].pc = "done" /\ task[u].call.name = "update"
        /\ task[t].result.kind = "return" /\ task[u].result.kind = "return"
        /\ t \in task[u].pre.overlaps
        /\ task[t].response.body = RacePayload1
        /\ task[u].response.body = RacePayload2
        /\ shared.thermostat.current_setpoint = PyFloat(18000)
        /\ shared.thermostat.program_state = PyInt(1)
        /\ shared.power_usage.current = PyInt(200)
        /\ shared.power_usage.current_solar = PyInt(50)

\* C24: every agreement-scoped attempt that is sent with context headers
\* names one agreement: the agreement id in the path of its URL equals its
\* X-Agreement-ID header, on retry attempts too and when activate_agreement
\* for another agreement has run on the client while the operation was
\* suspended (token refresh, backoff wait or network wait); and the data a
\* status GET returns is merged only into the Status of the agreement it
\* was fetched for.
C24_OneAgreementPerAttempt ==
    \A t \in Callers :
        LET request == task[t].request IN
        /\ (/\ task[t].pc = "wait"
            /\ request.uri_agreement_id # None
            /\ request.headers.agreement_id # Unset) =>
                request.headers.agreement_id = request.uri_agreement_id
        /\ (/\ task[t].pc = "done"
            /\ task[t].call.name = "update"
            /\ task[t].result.kind = "return") =>
                task[t].result.value.body.agreement.agreement_id
                    = request.uri_agreement_id

====
